---------------------------- MODULE Spec2Model ----------------------------
(***************************************************************************)
(* MC-AIXI-CTW: the action-conditional context tree (CTNode, ContextTree), *)
(* the agent shell (Agent, ModelUndo) and the rhoUCT planner (SearchNode). *)
(*                                                                         *)
(* The C++ code keeps probabilities as doubles in the log domain.  The     *)
(* model keeps the exact positive rational each logarithm stands for:      *)
(* "x += log(q)" is multiplication by q, "x -= log(q)" is division by q,   *)
(* and log(1/2) + logsumexp(a, b) is (exp a + exp b) / 2.  Floating-point  *)
(* rounding is therefore not modelled; every value is exact.               *)
(***************************************************************************)
EXTENDS Integers, Sequences, FiniteSets, TLC

(***************************************************************************)
(* Bounds of the model (configuration values and harness limits).          *)
(***************************************************************************)
\* "ct-depth": maximum depth of the context tree (ContextTree::m_depth)
Depth == 2

\* longest history the context-tree harness builds
MaxHist == 3

\* most updates applied in one update/revert block of the harness
MaxBlock == 3

\* most symbols asked of predict(symbols) / genRandomSymbols by the harness
MaxSyms == 2

\* "agent-horizon": the planning horizon (Agent::m_horizon)
Horizon == 2

\* "mc-simulations": simulations per search (Agent::m_mc_simulations)
McSimulations == 3

\* "terminate-age": the interaction loop stops once age exceeds it
TerminateAge == 1

\* "learning-period": 0 means the agent never stops learning
LearningPeriod == 1

\* the oldest agent the client of the agent's model updates lets act
MaxAge == 2

\* the widest value the client of the codec encodes in full: 1..MaxBits symbols
MaxBits == 3

\* bitsRequired is asked about 0..MaxX and about the ends of the range of int
MaxX == 9

\* the largest observation and the largest reward of the environments whose
\* percepts the client of the codec encodes
MaxPercept == 3

\* the largest value of rand(), standing for the library's RAND_MAX
RAND_MAX == 7

(***************************************************************************)
(* Exact rationals <<numerator, denominator>>, denominator > 0, reduced.   *)
(***************************************************************************)
RECURSIVE GCD(_, _)
GCD(a, b) == IF b = 0 THEN a ELSE GCD(b, a % b)

Abs(x) == IF x < 0 THEN -x ELSE x

RNorm(n, d) ==
    LET g == GCD(Abs(n), Abs(d))
        s == IF d < 0 THEN -1 ELSE 1
    IN  <<(s * n) \div g, (s * d) \div g>>

ROne == <<1, 1>>
RZero == <<0, 1>>
RMul(x, y) == RNorm(x[1] * y[1], x[2] * y[2])
RDiv(x, y) == RNorm(x[1] * y[2], x[2] * y[1])
RAdd(x, y) == RNorm(x[1] * y[2] + y[1] * x[2], x[2] * y[2])
RInt(k) == <<k, 1>>
RLess(x, y) == x[1] * y[2] < y[1] * x[2]

\* static const double log_half = std::log(0.5), kept as the value 1/2
log_half == <<1, 2>>

(***************************************************************************)
(* Symbols are 0 (false) and 1 (true).  A tree is a function from the      *)
(* context paths of its existing nodes to node records; the node at path   *)
(* p has child s iff Append(p, s) is in the domain.  <<>> is the root.     *)
(***************************************************************************)
Symbols == {0, 1}

\* CTNode::CTNode
CTNode ==
    [m_count |-> <<0, 0>>, m_log_kt |-> ROne, m_log_probability |-> ROne]

IsPrefix(p, q) ==
    /\ Len(p) <= Len(q)
    /\ \A i \in 1..Len(p) : p[i] = q[i]

\* CTNode::child
child(t, path, sym) == Append(path, sym)

HasChild(t, path, sym) == child(t, path, sym) \in DOMAIN t

\* CTNode::isLeafNode
isLeafNode(t, path) == ~HasChild(t, path, 0) /\ ~HasChild(t, path, 1)

\* CTNode::visits
visits(n) == n.m_count[1] + n.m_count[2]

\* CTNode::size, ContextTree::size
size(t) == Cardinality(DOMAIN t)

\* a multiplier that adds 1 where the KT estimator adds 1/2
logKTMultiplier_AddOne(n, symbol) ==
    RNorm(n.m_count[symbol + 1] + 1, visits(n) + 1)

\* CTNode::logKTMultiplier: (count[symbol] + 1/2) / (visits + 1)
logKTMultiplier(n, symbol) ==
    RNorm(2 * n.m_count[symbol + 1] + 1, 2 * (visits(n) + 1))

\* a weighted probability without the weight 1/2 of an internal node
updateLogProbability_Unweighted(t, path, log_kt) ==
    IF isLeafNode(t, path)
    THEN log_kt
    ELSE LET c0 == IF HasChild(t, path, 0)
                   THEN t[child(t, path, 0)].m_log_probability ELSE ROne
             c1 == IF HasChild(t, path, 1)
                   THEN t[child(t, path, 1)].m_log_probability ELSE ROne
         IN  RAdd(log_kt, RMul(c0, c1))

\* CTNode::updateLogProbability: the new weighted probability of the node
updateLogProbability(t, path, log_kt) ==
    IF isLeafNode(t, path)
    THEN log_kt
    ELSE LET c0 == IF HasChild(t, path, 0)
                   THEN t[child(t, path, 0)].m_log_probability ELSE ROne
             c1 == IF HasChild(t, path, 1)
                   THEN t[child(t, path, 1)].m_log_probability ELSE ROne
             log_child_prob == RMul(c0, c1)
         IN  RMul(log_half, RAdd(log_kt, log_child_prob))

\* CTNode::update
CTNodeUpdate(t, path, symbol) ==
    LET n  == t[path]
        kt == RMul(n.m_log_kt, logKTMultiplier(n, symbol))
    IN  [t EXCEPT ![path] =
            [m_log_kt |-> kt,
             m_log_probability |-> updateLogProbability(t, path, kt),
             m_count |-> [n.m_count EXCEPT ![symbol + 1] = @ + 1]]]

\* delete m_child[symbol]: the node and all its descendants go
DeleteChild(t, path, symbol) ==
    LET keep == {q \in DOMAIN t : ~IsPrefix(child(t, path, symbol), q)}
    IN  [q \in keep |-> t[q]]

\* a revert that takes the multiplier from the counts before the decrement
CTNodeRevert_MultiplierFirst(t, path, symbol) ==
    LET cnt == [t[path].m_count EXCEPT ![symbol + 1] = @ - 1]
        t1  == IF HasChild(t, path, symbol)
                  /\ visits(t[child(t, path, symbol)]) = 0
               THEN DeleteChild(t, path, symbol)
               ELSE t
        kt  == RDiv(t[path].m_log_kt, logKTMultiplier(t[path], symbol))
    IN  [t1 EXCEPT ![path] =
            [m_log_kt |-> kt,
             m_log_probability |-> updateLogProbability(t1, path, kt),
             m_count |-> cnt]]

\* CTNode::revert
CTNodeRevert(t, path, symbol) ==
    LET cnt == [t[path].m_count EXCEPT ![symbol + 1] = @ - 1]
        n1  == [t[path] EXCEPT !.m_count = cnt]
        t1  == IF HasChild(t, path, symbol)
                  /\ visits(t[child(t, path, symbol)]) = 0
               THEN DeleteChild(t, path, symbol)
               ELSE t
        kt  == RDiv(n1.m_log_kt, logKTMultiplier(n1, symbol))
    IN  [t1 EXCEPT ![path] =
            [m_log_kt |-> kt,
             m_log_probability |-> updateLogProbability(t1, path, kt),
             m_count |-> cnt]]

(***************************************************************************)
(* ContextTree: a record [m_root, m_history].                              *)
(***************************************************************************)
\* ContextTree::ContextTree, ContextTree::clear
NewContextTree == [m_root |-> (<<>> :> CTNode), m_history |-> <<>>]

\* m_context[i]: the path of the i most recent symbols, newest first
ContextPath(h, i) == [j \in 1..i |-> h[Len(h) + 1 - j]]

\* ContextTree::updateContext: the tree with the missing path nodes created
updateContext(t, h) ==
    LET ctx == {ContextPath(h, i) : i \in 0..Depth}
    IN  [q \in (DOMAIN t) \cup ctx |-> IF q \in DOMAIN t THEN t[q] ELSE CTNode]

RECURSIVE UpdatePath_SkipRoot(_, _, _, _)
\* an update loop that stops before the root ("i > 0")
UpdatePath_SkipRoot(t, h, symbol, i) ==
    IF i <= 0 THEN t
    ELSE UpdatePath_SkipRoot(CTNodeUpdate(t, ContextPath(h, i), symbol), h, symbol, i - 1)

RECURSIVE UpdatePath(_, _, _, _)
UpdatePath(t, h, symbol, i) ==
    IF i < 0 THEN t
    ELSE UpdatePath(CTNodeUpdate(t, ContextPath(h, i), symbol), h, symbol, i - 1)

RECURSIVE RevertPath_SkipRoot(_, _, _, _)
\* a revert loop that stops before the root ("i > 0")
RevertPath_SkipRoot(t, h, symbol, i) ==
    IF i <= 0 THEN t
    ELSE RevertPath_SkipRoot(CTNodeRevert(t, ContextPath(h, i), symbol), h, symbol, i - 1)

RECURSIVE RevertPath(_, _, _, _)
RevertPath(t, h, symbol, i) ==
    IF i < 0 THEN t
    ELSE RevertPath(CTNodeRevert(t, ContextPath(h, i), symbol), h, symbol, i - 1)

\* ContextTree::update(symbol_t)
update(ct, symbol) ==
    LET h == ct.m_history
    IN  [m_root |-> IF Len(h) >= Depth
                    THEN UpdatePath(updateContext(ct.m_root, h), h, symbol, Depth)
                    ELSE ct.m_root,
         m_history |-> Append(h, symbol)]

RECURSIVE updateList(_, _)
\* ContextTree::update(symbol_list_t)
updateList(ct, symbols) ==
    IF symbols = <<>> THEN ct
    ELSE updateList(update(ct, Head(symbols)), Tail(symbols))

\* ContextTree::updateHistory(symbol_list_t), updateHistory(symbol_t)
updateHistory(ct, symbols) == [ct EXCEPT !.m_history = @ \o symbols]

\* ContextTree::revert(void)
revert(ct) ==
    IF Len(ct.m_history) = 0 THEN ct
    ELSE LET symbol == ct.m_history[Len(ct.m_history)]
             h      == SubSeq(ct.m_history, 1, Len(ct.m_history) - 1)
         IN  [m_root |-> IF Len(h) >= Depth
                         THEN RevertPath(updateContext(ct.m_root, h), h, symbol, Depth)
                         ELSE ct.m_root,
              m_history |-> h]

RECURSIVE revertN(_, _)
\* ContextTree::revert(int)
revertN(ct, num_symbols) ==
    IF num_symbols <= 0 THEN ct ELSE revertN(revert(ct), num_symbols - 1)

\* ContextTree::revertHistory
revertHistory(ct, num_symbols) ==
    [ct EXCEPT !.m_history = SubSeq(@, 1, Len(@) - num_symbols)]

\* ContextTree::logBlockProbability
logBlockProbability(ct) == ct.m_root[<<>>].m_log_probability

RECURSIVE RPow(_, _)
RPow(x, k) == IF k <= 0 THEN ROne ELSE RMul(x, RPow(x, k - 1))

\* ContextTree::predict(symbol_t): the returned probability and the tree left
predict(ct, symbol) ==
    IF Len(ct.m_history) < Depth
    THEN [value |-> <<1, 2>>, ct |-> ct]
    ELSE LET prob_history  == logBlockProbability(ct)
             ct1           == update(ct, symbol)
             prob_sequence == logBlockProbability(ct1)
         IN  [value |-> RDiv(prob_sequence, prob_history), ct |-> revert(ct1)]

\* a prediction of a list that always goes through update and revert
predictList_NoShortcut(ct, symbols) ==
    LET ct1 == updateList(ct, symbols)
    IN  [value |-> RDiv(logBlockProbability(ct1), logBlockProbability(ct)),
         ct |-> revertN(ct1, Len(symbols))]

\* ContextTree::predict(symbol_list_t)
predictList(ct, symbols) ==
    IF Len(ct.m_history) + Len(symbols) <= Depth
    THEN [value |-> RPow(<<1, 2>>, Len(symbols)), ct |-> ct]
    ELSE LET prob_history  == logBlockProbability(ct)
             ct1           == updateList(ct, symbols)
             prob_sequence == logBlockProbability(ct1)
         IN  [value |-> RDiv(prob_sequence, prob_history),
              ct |-> revertN(ct1, Len(symbols))]

\* the outcomes of "rand01() < p" for rand01() in [0, 1]
Bernoulli(p) == {0} \cup (IF RLess(RZero, p) THEN {1} ELSE {})

RECURSIVE genRandomSymbolsAndUpdate(_, _)
\* ContextTree::genRandomSymbolsAndUpdate: every (symbols, tree) it can produce
genRandomSymbolsAndUpdate(ct, bits) ==
    IF bits <= 0 THEN {[symbols |-> <<>>, ct |-> ct]}
    ELSE LET pr == predict(ct, 1)
         IN  UNION {
               {[symbols |-> <<s>> \o r.symbols, ct |-> r.ct] :
                    r \in genRandomSymbolsAndUpdate(update(pr.ct, s), bits - 1)} :
               s \in Bernoulli(pr.value)}

\* a sampler that reverts one symbol too few
genRandomSymbols_RevertOneLess(ct, bits) ==
    {[symbols |-> r.symbols, ct |-> revertN(r.ct, bits - 1)] :
        r \in genRandomSymbolsAndUpdate(ct, bits)}

\* ContextTree::genRandomSymbols
genRandomSymbols(ct, bits) ==
    {[symbols |-> r.symbols, ct |-> revertN(r.ct, bits)] :
        r \in genRandomSymbolsAndUpdate(ct, bits)}


(***************************************************************************)
(* Bit codec (util).                                                       *)
(***************************************************************************)
\* the largest value of int (interaction_t, and y of bitsRequired)
INT_MAX == 2147483647

RECURSIVE BitsLoop(_, _, _)
\* bitsRequired: for(int y = 2; y <= x; y *= 2) bits++.  When y *= 2 leaves the
\* range of int the behaviour is undefined: the loop gives -1 for that.
BitsLoop(x, y, bits) ==
    IF y <= x
    THEN IF y > INT_MAX \div 2 THEN -1 ELSE BitsLoop(x, 2 * y, bits + 1)
    ELSE bits

\* bitsRequired
bitsRequired(x) == BitsLoop(x, 2, 1)

\* an encoding with the most significant bit first
encode_MsbFirst(symbols, value, bits) ==
    symbols \o [i \in 1..bits |-> (value \div (2 ^ (bits - i))) % 2]

RECURSIVE encode(_, _, _)
\* encode: appends `bits` symbols, least significant bit first
encode(symbols, value, bits) ==
    IF bits <= 0 THEN symbols
    ELSE encode(Append(symbols, IF value % 2 = 1 THEN 1 ELSE 0), value \div 2, bits - 1)

RECURSIVE DecodeLoop(_, _, _, _)
DecodeLoop(symbols, k, bits, value) ==
    IF k >= bits THEN value
    ELSE DecodeLoop(symbols, k + 1, bits, symbols[Len(symbols) - k] + 2 * value)

\* a decoding that reads the first `bits` symbols of the list
decode_FromFront(symbols, bits) == DecodeLoop(SubSeq(symbols, 1, bits), 0, bits, 0)

\* decode: reads the last `bits` symbols, the last one most significant
decode(symbols, bits) == DecodeLoop(symbols, 0, bits, 0)

(***************************************************************************)
(* Random numbers (util): functions of the raw outcome of rand().          *)
(***************************************************************************)
\* rand01: double(rand()) / double(RAND_MAX), for the outcome raw of rand()
rand01(raw) == RNorm(raw, RAND_MAX)

\* randRange: const int remainder = RAND_MAX % end
randRangeRemainder(end) == RAND_MAX % end

\* randRange: while (r < remainder) draws again; r is kept otherwise
randRangeAccepts(r, end) == ~(r < randRangeRemainder(end))

\* randRange: return r % end
randRangeResult(r, end) == r % end

(***************************************************************************)
(* The environment: CoinFlip.                                              *)
(***************************************************************************)
\* CoinFlip::maxAction
maxAction == 1

\* CoinFlip::maxObservation
maxObservation == 1

\* CoinFlip::maxReward
maxReward == 1

\* Environment::actionBits
actionBits == bitsRequired(maxAction)

\* Environment::observationBits
observationBits == bitsRequired(maxObservation)

\* Environment::rewardBits
rewardBits == bitsRequired(maxReward)

\* Environment::perceptBits
perceptBits == observationBits + rewardBits

\* Environment::isValidAction (minAction is 0)
isValidAction(a) == 0 <= a /\ a <= maxAction

\* CoinFlip::CoinFlip: the initial percepts
CoinFlipInit == {[m_observation |-> o, m_reward |-> 0] : o \in {0, 1}}

\* CoinFlip::performAction: the percepts the flip can give (0 < m_probability < 1)
performAction(a) ==
    {[m_observation |-> o, m_reward |-> IF a = o THEN 1 ELSE 0] : o \in {0, 1}}

(***************************************************************************)
(* Agent: a record [m_ct, m_time_cycle, m_total_reward, m_last_update,     *)
(* m_learning_period, violations]; violations collects the preconditions   *)
(* a call did not meet.                                                    *)
(***************************************************************************)
\* Agent::encodeAction
encodeAction(a) == encode(<<>>, a, actionBits)

\* a percept encoding with the observation first
encodePerceptIn_ObservationFirst(observation, reward, oBits, rBits) ==
    encode(encode(<<>>, observation, oBits), reward, rBits)

\* Agent::encodePercept in an environment whose rewards take rBits symbols
\* and whose observations take oBits: reward bits, then observation bits
encodePerceptIn(observation, reward, oBits, rBits) ==
    encode(encode(<<>>, reward, rBits), observation, oBits)

\* Agent::encodePercept
encodePercept(observation, reward) ==
    encodePerceptIn(observation, reward, observationBits, rewardBits)

\* Agent::decodePercept in an environment with these widths
decodePerceptIn(symlist, oBits, rBits) ==
    [reward |-> decode(SubSeq(symlist, 1, rBits), rBits),
     observation |-> decode(SubSeq(symlist, rBits + 1, Len(symlist)), oBits)]

\* Agent::decodePercept
decodePercept(symlist) == decodePerceptIn(symlist, observationBits, rewardBits)

\* Agent::genRandomAction: randRange(maxAction + 1)
genRandomAction == 0..maxAction

Check(cond, name) == IF cond THEN {} ELSE {name}

\* a percept update that trains the tree whatever the learning period
modelUpdatePercept_AlwaysTrain(ag, observation, reward) ==
    [ag EXCEPT !.m_ct = updateList(@, encodePercept(observation, reward)),
               !.m_total_reward = @ + reward,
               !.m_last_update = "percept_update"]

\* Agent::modelUpdate(percept_t, percept_t)
modelUpdatePercept(ag, observation, reward) ==
    LET percept_syms == encodePercept(observation, reward)
    IN  [ag EXCEPT
            !.violations = @ \cup Check(ag.m_last_update = "action_update",
                                        "modelUpdate(percept) after a percept"),
            !.m_ct = IF ag.m_learning_period > 0 /\ ag.m_time_cycle > ag.m_learning_period
                     THEN updateHistory(@, percept_syms)
                     ELSE updateList(@, percept_syms),
            !.m_total_reward = @ + reward,
            !.m_last_update = "percept_update"]

\* a modelUpdate(action) that leaves the age as it is
modelUpdateAction_NoAge(ag, a) ==
    [ag EXCEPT !.m_ct = updateHistory(@, encodeAction(a)),
               !.m_last_update = "action_update"]

\* an action update that trains the tree on the action bits
modelUpdateAction_Train(ag, a) ==
    [ag EXCEPT !.m_ct = updateList(@, encodeAction(a)),
               !.m_time_cycle = @ + 1,
               !.m_last_update = "action_update"]

\* Agent::modelUpdate(action_t)
modelUpdateAction(ag, a) ==
    [ag EXCEPT
        !.violations = @ \cup Check(isValidAction(a), "modelUpdate(action): invalid action")
                         \cup Check(ag.m_last_update = "percept_update",
                                    "modelUpdate(action) after an action"),
        !.m_ct = updateHistory(@, encodeAction(a)),
        !.m_time_cycle = @ + 1,
        !.m_last_update = "action_update"]

\* Agent::genPercept in an environment with these widths: every percept it
\* can produce from the tree
genPerceptIn(ct, oBits, rBits) ==
    {decodePerceptIn(g.symbols, oBits, rBits) :
        g \in genRandomSymbols(ct, oBits + rBits)}

\* Agent::genPerceptAndUpdate: every (agent, o, r) it can produce
genPerceptAndUpdate(ag) ==
    {LET p == decodePercept(g.symbols)
     IN  [agent |-> [ag EXCEPT
                        !.m_ct = g.ct,
                        !.m_total_reward = @ + p.reward,
                        !.m_last_update = "percept_update"],
          o |-> p.observation,
          r |-> p.reward] :
     g \in genRandomSymbolsAndUpdate(ag.m_ct, perceptBits)}

\* an undo token that forgets the last-update tag
ModelUndo_TagLost(ag) ==
    [m_age |-> ag.m_time_cycle,
     m_reward |-> ag.m_total_reward,
     m_history_size |-> Len(ag.m_ct.m_history),
     m_last_update |-> "action_update"]

\* ModelUndo::ModelUndo
ModelUndo(ag) ==
    [m_age |-> ag.m_time_cycle,
     m_reward |-> ag.m_total_reward,
     m_history_size |-> Len(ag.m_ct.m_history),
     m_last_update |-> ag.m_last_update]

RECURSIVE RevertLoop_Untrained(_, _)
\* a revert loop that takes percepts off the history and leaves the tree trained
RevertLoop_Untrained(ag, mu) ==
    IF Len(ag.m_ct.m_history) > mu.m_history_size
    THEN IF ag.m_last_update = "percept_update"
         THEN RevertLoop_Untrained([ag EXCEPT !.m_ct = revertHistory(@, perceptBits),
                                              !.m_last_update = "action_update"], mu)
         ELSE RevertLoop_Untrained([ag EXCEPT !.m_ct = revertHistory(@, actionBits),
                                              !.m_last_update = "percept_update"], mu)
    ELSE ag

RECURSIVE RevertLoop_TreeForActions(_, _)
\* a revert loop that undoes the action bits with tree reverts too
RevertLoop_TreeForActions(ag, mu) ==
    IF Len(ag.m_ct.m_history) > mu.m_history_size
    THEN IF ag.m_last_update = "percept_update"
         THEN RevertLoop_TreeForActions([ag EXCEPT !.m_ct = revertN(@, perceptBits),
                                                   !.m_last_update = "action_update"], mu)
         ELSE RevertLoop_TreeForActions([ag EXCEPT !.m_ct = revertN(@, actionBits),
                                                   !.m_last_update = "percept_update"], mu)
    ELSE ag

RECURSIVE RevertLoop(_, _)
\* Agent::modelRevert, the loop undoing percepts and actions in turn
RevertLoop(ag, mu) ==
    IF Len(ag.m_ct.m_history) > mu.m_history_size
    THEN IF ag.m_last_update = "percept_update"
         THEN RevertLoop([ag EXCEPT !.m_ct = revertN(@, perceptBits),
                                    !.m_last_update = "action_update"], mu)
         ELSE RevertLoop([ag EXCEPT !.m_ct = revertHistory(@, actionBits),
                                    !.m_last_update = "percept_update"], mu)
    ELSE ag

\* a revert that restores the history and leaves age and reward as they are
modelRevert_HistoryOnly(ag, mu) == RevertLoop(ag, mu)

\* Agent::modelRevert
modelRevert(ag, mu) ==
    [RevertLoop(ag, mu) EXCEPT !.m_time_cycle = mu.m_age,
                               !.m_total_reward = mu.m_reward,
                               !.m_last_update = mu.m_last_update]

(***************************************************************************)
(* SearchNode: the search tree is a function from the paths of its nodes   *)
(* (the child indices from the root) to [m_type, m_mean, m_visits].        *)
(***************************************************************************)
\* SearchNode::SearchNode
SearchNode(nodetype) == [m_type |-> nodetype, m_mean |-> RZero, m_visits |-> 0]

NoTree == <<>>

\* SearchNode::child (non-NULL test)
HasSearchChild(st, path, index) == Append(path, index) \in DOMAIN st

\* m_child[index] = new SearchNode(nodetype), when the child is missing
WithChild(st, path, index, nodetype) ==
    IF HasSearchChild(st, path, index) THEN st
    ELSE [q \in (DOMAIN st) \cup {Append(path, index)} |->
             IF q \in DOMAIN st THEN st[q] ELSE SearchNode(nodetype)]

\* the largest tie-breaking noise of selectAction, rand01() * 0.001
SelectNoise == <<1, 1000>>

\* the largest tie-breaking noise of search, rand01() * 0.0001
SearchNoise == <<1, 10000>>

\* SearchNode::selectAction, line 148: the child of action a is missing or
\* unvisited, and a has the priority unexplored_bias = 1e9
Unexplored(st, path, a) ==
    \/ ~HasSearchChild(st, path, a)
    \/ st[Append(path, a)].m_visits = 0

\* SearchNode::selectAction, line 157: "priority(a) > priority(b) + noise" holds
\* for some noise in [0, 0.001].  The priority of an explored child is
\* mean + horizon * maxReward * sqrt(2 ln N / n), below 1e9 and falling with
\* its visits n: the test fails for sure against an unexplored b, and against
\* an explored b with at most the visits of a and at least its mean.
MayExceed(st, path, a, b) ==
    IF Unexplored(st, path, b) THEN FALSE
    ELSE IF Unexplored(st, path, a) THEN TRUE
    ELSE ~(/\ st[Append(path, a)].m_visits >= st[Append(path, b)].m_visits
           /\ ~RLess(st[Append(path, b)].m_mean, st[Append(path, a)].m_mean))

\* SearchNode::selectAction, line 157: the test holds for every noise in
\* [0, 0.001]
MustExceed(st, path, a, b) ==
    IF Unexplored(st, path, b) THEN FALSE
    ELSE IF Unexplored(st, path, a) THEN TRUE
    ELSE /\ st[Append(path, a)].m_visits <= st[Append(path, b)].m_visits
         /\ RLess(RAdd(st[Append(path, b)].m_mean, SelectNoise),
                  st[Append(path, a)].m_mean)

RECURSIVE SelectLoop(_, _, _, _)
\* SearchNode::selectAction, lines 143-161: the values best_action can have
\* after the iterations a..maxAction, when it had one of the values of best
\* before them
SelectLoop(st, path, a, best) ==
    IF a > maxAction THEN best
    ELSE SelectLoop(st, path, a + 1,
                    {b \in best : ~MustExceed(st, path, a, b)}
                    \cup (IF \E b \in best : MayExceed(st, path, a, b)
                          THEN {a} ELSE {}))

\* a policy that draws the action uniformly from all actions
selectAction_AnyAction(st, path) == 0..maxAction

\* SearchNode::selectAction: the actions the UCB policy can return.  The first
\* iteration compares with -infinity and always takes action 0.
selectAction(st, path) == SelectLoop(st, path, 1, {0})

\* a backup that counts a sample twice
Backup_CountsTwice(n, r) ==
    [n EXCEPT !.m_mean = RDiv(RAdd(RInt(r), RMul(RInt(n.m_visits), n.m_mean)),
                              RInt(n.m_visits + 1)),
              !.m_visits = @ + 2]

\* a backup that keeps the last return in place of the mean
Backup_LastReturn(n, r) ==
    [n EXCEPT !.m_mean = RInt(r), !.m_visits = @ + 1]

\* SearchNode::sample, lines 203-207: the node after one more sample
Backup(n, r) ==
    [n EXCEPT !.m_mean = RDiv(RAdd(RInt(r), RMul(RInt(n.m_visits), n.m_mean)),
                              RInt(n.m_visits + 1)),
              !.m_visits = @ + 1]

RECURSIVE Unwind(_, _, _)
\* SearchNode::sample returning up the call stack: a chance node adds the
\* reward it sampled, every node on the stack records the sample
Unwind(st, frames, below) ==
    IF frames = <<>> THEN st
    ELSE LET f == frames[Len(frames)]
             r == IF st[f.node].m_type = "chance" THEN f.r + below ELSE below
         IN  Unwind([st EXCEPT ![f.node] = Backup(@, r)],
                    SubSeq(frames, 1, Len(frames) - 1), r)

\* a final choice that is the random action whatever the tree holds
BestActions_Random(st) == genRandomAction

\* Agent::search, lines 224-238: the actions the final choice can return
BestActions(st) ==
    LET Children == {a \in 0..maxAction : HasSearchChild(st, <<>>, a)}
        mean(a) == st[<<a>>].m_mean
    IN  IF Children = {} THEN genRandomAction
        ELSE {a \in Children :
                /\ RLess(RInt(-1), RAdd(mean(a), SearchNoise))
                /\ \A b \in Children :
                     /\ (b < a => RLess(mean(b), RAdd(mean(a), SearchNoise)))
                     /\ (b > a => ~RLess(RAdd(mean(a), SearchNoise), mean(b)))}

(***************************************************************************)
(* State.                                                                  *)
(***************************************************************************)
VARIABLES
    m_ct,            \* Agent::m_ct: the context tree, [m_root, m_history]
    m_time_cycle,    \* Agent::m_time_cycle: the age of the agent
    m_total_reward,  \* Agent::m_total_reward
    m_last_update,   \* Agent::m_last_update: "action_update" or "percept_update"
    violations,      \* the preconditions some call of the agent did not meet
    env,             \* Environment::m_observation, m_reward
    cycle,           \* mainLoop: cycle
    explore,         \* mainLoop: explore
    explored,        \* mainLoop: explored
    action,          \* mainLoop: action
    pc,              \* where the interaction loop and the search stand
    m_horizon,       \* Agent::m_horizon: the planning horizon of this run
    m_mc_simulations,  \* Agent::m_mc_simulations: the simulations per search of this run
    m_learning_period, \* Agent::m_learning_period, mainLoop: learning_period
    m_search_tree,   \* Agent::m_search_tree
    undo,            \* Agent::search: undo
    sim,             \* Agent::search: t, the simulations done
    stack,           \* the calls of SearchNode::sample in progress, root first
    reward,          \* SearchNode::sample, Agent::playout: reward
    horizon,         \* Agent::playout: horizon
    entry,           \* the agent as it was when search() was called
    block,           \* harness: the update/revert block in progress
    call             \* the last call observed: its arguments, pre-state and result

agentVars == <<m_time_cycle, m_total_reward, m_last_update, violations>>

options == <<m_horizon, m_mc_simulations, m_learning_period>>

loopVars == <<env, cycle, explore, explored, action, pc, options>>

searchVars == <<m_search_tree, undo, sim, stack, reward, horizon, entry>>

vars == <<m_ct, agentVars, loopVars, searchVars, block, call>>

NoBlock == [phase |-> "idle"]
NoCall == [op |-> "none"]
NoUndo == [m_age |-> 0]
NoEntry == [m_time_cycle |-> 0]
NoEnv == [m_observation |-> 0, m_reward |-> 0]

Idle == block.phase \in {"idle", "reverted"}

SymLists(k) == UNION {[1..n -> Symbols] : n \in 0..k}

(***************************************************************************)
(* The context tree on its own: a client that trains the tree, appends to  *)
(* the history, applies a block of k updates and then reverts them, and    *)
(* queries the tree.                                                       *)
(***************************************************************************)
AgentReset ==
    /\ m_ct = NewContextTree
    /\ m_time_cycle = 0
    /\ m_total_reward = 0
    /\ m_last_update = "action_update"
    /\ violations = {}

SearchIdle ==
    /\ m_search_tree = NoTree
    /\ undo = NoUndo
    /\ sim = 0
    /\ stack = <<>>
    /\ reward = 0
    /\ horizon = 0
    /\ entry = NoEntry

InitCT ==
    /\ AgentReset
    /\ SearchIdle
    /\ env = NoEnv
    /\ m_horizon = Horizon
    /\ m_mc_simulations = McSimulations
    /\ m_learning_period = 0
    /\ cycle = 1
    /\ explore = FALSE
    /\ explored = FALSE
    /\ action = 0
    /\ pc = "tree"
    /\ block = NoBlock
    /\ call = NoCall

\* ContextTree::update(symbol_t), kept for good
Train(s) ==
    /\ pc = "tree"
    /\ UNCHANGED <<agentVars, loopVars, searchVars>>
    /\ Idle
    /\ Len(m_ct.m_history) < MaxHist
    /\ m_ct' = update(m_ct, s)
    /\ block' = NoBlock
    /\ call' = [op |-> "update", pre |-> m_ct, symbol |-> s]

\* ContextTree::updateHistory(symbol_t)
HistoryOnly(s) ==
    /\ pc = "tree"
    /\ UNCHANGED <<agentVars, loopVars, searchVars>>
    /\ Idle
    /\ Len(m_ct.m_history) < MaxHist
    /\ m_ct' = updateHistory(m_ct, <<s>>)
    /\ block' = NoBlock
    /\ call' = NoCall

\* ContextTree::update(symbol_t), one of the k updates of a block
BlockUpdate(s) ==
    /\ pc = "tree"
    /\ UNCHANGED <<agentVars, loopVars, searchVars>>
    /\ \/ /\ Idle
          /\ block' = [phase |-> "updating", mark |-> m_ct, len |-> 1, pending |-> 1]
       \/ /\ block.phase = "updating"
          /\ block.len < MaxBlock
          /\ block' = [block EXCEPT !.len = @ + 1, !.pending = @ + 1]
    /\ m_ct' = update(m_ct, s)
    /\ call' = NoCall

\* ContextTree::revert(void), one of the k reverts of a block
BlockRevert ==
    /\ pc = "tree"
    /\ UNCHANGED <<agentVars, loopVars, searchVars>>
    /\ block.phase \in {"updating", "reverting"}
    /\ m_ct' = revert(m_ct)
    /\ block' = [block EXCEPT !.pending = @ - 1,
                              !.phase = IF block.pending = 1 THEN "reverted"
                                        ELSE "reverting"]
    /\ call' = NoCall

\* ContextTree::predict(symbol_t)
Predict(s) ==
    /\ pc = "tree"
    /\ UNCHANGED <<agentVars, loopVars, searchVars>>
    /\ Idle
    /\ LET r == predict(m_ct, s)
       IN  /\ m_ct' = r.ct
           /\ call' = [op |-> "predict", pre |-> m_ct, value |-> r.value, symbol |-> s]
    /\ block' = NoBlock

\* ContextTree::predict(symbol_list_t)
PredictList(symbols) ==
    /\ pc = "tree"
    /\ UNCHANGED <<agentVars, loopVars, searchVars>>
    /\ Idle
    /\ LET r == predictList(m_ct, symbols)
       IN  /\ m_ct' = r.ct
           /\ call' = [op |-> "predictList", pre |-> m_ct, value |-> r.value,
                       symbols |-> symbols]
    /\ block' = NoBlock

\* ContextTree::genRandomSymbols
GenRandomSymbols(bits) ==
    /\ pc = "tree"
    /\ UNCHANGED <<agentVars, loopVars, searchVars>>
    /\ Idle
    /\ \E r \in genRandomSymbols(m_ct, bits) :
           /\ m_ct' = r.ct
           /\ call' = [op |-> "genRandomSymbols", pre |-> m_ct,
                       bits |-> bits, symbols |-> r.symbols]
    /\ block' = NoBlock

\* ContextTree::clear
Clear ==
    /\ pc = "tree"
    /\ UNCHANGED <<agentVars, loopVars, searchVars>>
    /\ Idle
    /\ m_ct.m_history # <<>>
    /\ m_ct' = NewContextTree
    /\ block' = NoBlock
    /\ call' = NoCall

NextCT ==
    \/ \E s \in Symbols : Train(s)
    \/ \E s \in Symbols : HistoryOnly(s)
    \/ \E s \in Symbols : BlockUpdate(s)
    \/ BlockRevert
    \/ \E s \in Symbols : Predict(s)
    \/ \E symbols \in SymLists(MaxSyms) : PredictList(symbols)
    \/ \E bits \in 0..MaxSyms : GenRandomSymbols(bits)
    \/ Clear

SpecCT == InitCT /\ [][NextCT]_vars

(***************************************************************************)
(* Observable state of a tree.                                             *)
(***************************************************************************)
\* the symbol counts of the node at a path; a node that does not exist has seen nothing
CountsAt(t, path) == IF path \in DOMAIN t THEN t[path].m_count ELSE <<0, 0>>

SameCounts(t1, t2) ==
    \A path \in (DOMAIN t1) \cup (DOMAIN t2) : CountsAt(t1, path) = CountsAt(t2, path)

BlockDone == block.phase = "reverted"

\* C1: after n >= D updates and as many reverts the tree has as many nodes as before
C1_SizeRestored ==
    (BlockDone /\ block.len >= Depth) => size(m_ct.m_root) = size(block.mark.m_root)

\* C2: after k updates and k reverts the history is the same bit string, every node
\* that existed before has the counts it had, and every node that did not exist
\* before has both counts zero
C2_CountsAndHistoryRestored ==
    BlockDone =>
        /\ m_ct.m_history = block.mark.m_history
        /\ SameCounts(block.mark.m_root, m_ct.m_root)

C2_Witness ==
    /\ BlockDone
    /\ block.len >= 2
    /\ \E path \in DOMAIN block.mark.m_root : visits(block.mark.m_root[path]) > 0
    /\ \E path \in DOMAIN m_ct.m_root : path \notin DOMAIN block.mark.m_root

\* C3: after k updates and k reverts the root's weighted block probability is the
\* exact value it was, and every node still there has the KT estimate it had
C3_BlockProbabilityRestored ==
    BlockDone =>
        /\ logBlockProbability(m_ct) = logBlockProbability(block.mark)
        /\ \A path \in (DOMAIN m_ct.m_root) \cap (DOMAIN block.mark.m_root) :
               m_ct.m_root[path].m_log_kt = block.mark.m_root[path].m_log_kt

C3_Witness ==
    /\ BlockDone
    /\ block.len >= 2
    /\ logBlockProbability(m_ct) # ROne
    /\ Len(block.mark.m_history) >= Depth


Queried(ops) == call.op \in ops

\* C6: predict(symbol) and predict(symbols) leave the history, the symbol counts of
\* every node and the number of nodes as they were before the call
C6_PredictLeavesTreeUnchanged ==
    Queried({"predict", "predictList"}) =>
        /\ m_ct.m_history = call.pre.m_history
        /\ SameCounts(call.pre.m_root, m_ct.m_root)
        /\ size(m_ct.m_root) = size(call.pre.m_root)

\* predict(true) followed by predict(false), as a caller makes them
PredictBoth(ct) ==
    LET r1 == predict(ct, 1)
        r0 == predict(r1.ct, 0)
    IN  RAdd(r1.value, r0.value)

HasLeftover(t) == \E path \in DOMAIN t : path # <<>> /\ visits(t[path]) = 0

\* C7: whenever the history holds at least D symbols, predict(true) + predict(false) = 1
C7_PredictionsSumToOne ==
    Len(m_ct.m_history) >= Depth => PredictBoth(m_ct) = ROne

C7_Witness ==
    /\ Len(m_ct.m_history) >= Depth
    /\ HasLeftover(m_ct.m_root)
    /\ visits(m_ct.m_root[<<>>]) >= 2
    /\ predict(m_ct, 1).value # <<1, 2>>

\* C8: genRandomSymbols(symbols, k) returns exactly k bits and leaves the history,
\* every node's symbol counts and the root block probability as they were
C8_GenRandomSymbolsNonDestructive ==
    Queried({"genRandomSymbols"}) =>
        /\ Len(call.symbols) = call.bits
        /\ m_ct.m_history = call.pre.m_history
        /\ SameCounts(call.pre.m_root, m_ct.m_root)
        /\ logBlockProbability(m_ct) = logBlockProbability(call.pre)

C8_Witness ==
    /\ Queried({"genRandomSymbols"})
    /\ call.bits >= 2
    /\ Len(m_ct.m_history) >= Depth
    /\ visits(m_ct.m_root[<<>>]) > 0
    /\ 1 \in {call.symbols[i] : i \in 1..Len(call.symbols)}


(***************************************************************************)
(* The agent in the interaction loop (mainLoop) with the CoinFlip          *)
(* environment; Agent::search and SearchNode::sample advance step by step. *)
(***************************************************************************)
Agent ==
    [m_ct |-> m_ct, m_time_cycle |-> m_time_cycle, m_total_reward |-> m_total_reward,
     m_last_update |-> m_last_update, m_learning_period |-> m_learning_period,
     violations |-> violations]

SetAgent(ag) ==
    /\ m_ct' = ag.m_ct
    /\ m_time_cycle' = ag.m_time_cycle
    /\ m_total_reward' = ag.m_total_reward
    /\ m_last_update' = ag.m_last_update
    /\ violations' = ag.violations

Top == stack[Len(stack)]

Frame(node, h) == [node |-> node, horizon |-> h, r |-> 0]

\* Agent::Agent, CoinFlip::CoinFlip, the entry of mainLoop
Init ==
    /\ AgentReset
    /\ SearchIdle
    /\ env \in CoinFlipInit
    /\ m_horizon \in 1..Horizon
    /\ m_mc_simulations \in 1..McSimulations
    /\ m_learning_period \in 0..LearningPeriod
    /\ cycle = 1
    /\ explore \in BOOLEAN
    /\ explored = FALSE
    /\ action = 0
    /\ pc = "loop"
    /\ block = NoBlock
    /\ call = NoCall

\* mainLoop, lines 64-83: the percept of the cycle reaches the agent
MainLoopPercept ==
    /\ pc = "loop"
    /\ ~(m_time_cycle > TerminateAge)
    /\ explore' = IF m_learning_period > 0 /\ cycle > m_learning_period THEN FALSE ELSE explore
    /\ SetAgent(modelUpdatePercept(Agent, env.m_observation, env.m_reward))
    /\ call' = [op |-> "modelUpdatePercept", pre |-> Agent,
                observation |-> env.m_observation, reward |-> env.m_reward]
    /\ pc' = "act"
    /\ UNCHANGED <<env, options, cycle, explored, action, searchVars, block>>

\* mainLoop, lines 66-69: the agent is older than terminate-age
MainLoopExit ==
    /\ pc = "loop"
    /\ m_time_cycle > TerminateAge
    /\ pc' = "done"
    /\ call' = NoCall
    /\ UNCHANGED <<m_ct, agentVars, env, options, cycle, explore, explored, action, searchVars, block>>

\* mainLoop, lines 89-92: explore
ExploreAction ==
    /\ pc = "act"
    /\ explore
    /\ explored' = TRUE
    /\ action' \in genRandomAction
    /\ pc' = "perform"
    /\ call' = NoCall
    /\ UNCHANGED <<m_ct, agentVars, env, options, cycle, explore, searchVars, block>>

\* Agent::search, lines 211-215
SearchBegin ==
    /\ pc = "act"
    /\ explored' = FALSE
    /\ undo' = ModelUndo(Agent)
    /\ entry' = Agent
    /\ m_search_tree' = (<<>> :> SearchNode("decision"))
    /\ sim' = 0
    /\ pc' = "search"
    /\ call' = NoCall
    /\ UNCHANGED <<m_ct, agentVars, env, options, cycle, explore, action, stack, reward, horizon, block>>

\* Agent::search, lines 219-220: m_search_tree->sample(*this, m_horizon) is called
SampleBegin ==
    /\ pc = "search"
    /\ sim < m_mc_simulations
    /\ stack' = <<Frame(<<>>, m_horizon)>>
    /\ pc' = "sample"
    /\ call' = NoCall
    /\ UNCHANGED <<m_ct, agentVars, env, options, cycle, explore, explored, action,
                   m_search_tree, undo, sim, reward, horizon, entry, block>>

\* SearchNode::sample, lines 173-175: the horizon is reached
SampleHorizon ==
    /\ pc = "sample"
    /\ Top.horizon = 0
    /\ stack' = SubSeq(stack, 1, Len(stack) - 1)
    /\ reward' = 0
    /\ pc' = "return"
    /\ call' = NoCall
    /\ UNCHANGED <<m_ct, agentVars, env, options, cycle, explore, explored, action,
                   m_search_tree, undo, sim, horizon, entry, block>>

\* SearchNode::sample, lines 182-184: the index in m_child of the decision
\* node that follows the percept (o, r)
ChanceChildIndex(o, r) == o

\* a chance node that passes its horizon on to the decision child undecremented
SampleChance_KeepsHorizon ==
    /\ pc = "sample"
    /\ Top.horizon # 0
    /\ m_search_tree[Top.node].m_type = "chance"
    /\ \E g \in genPerceptAndUpdate(Agent) :
          /\ SetAgent(g.agent)
          /\ m_search_tree' = WithChild(m_search_tree, Top.node,
                                        ChanceChildIndex(g.o, g.r), "decision")
          /\ stack' = Append([stack EXCEPT ![Len(stack)].r = g.r],
                             Frame(Append(Top.node, ChanceChildIndex(g.o, g.r)),
                                   Top.horizon))
          /\ call' = [op |-> "genPerceptAndUpdate", pre |-> Agent, o |-> g.o, r |-> g.r]
    /\ UNCHANGED <<env, options, cycle, explore, explored, action, pc,
                   undo, sim, reward, horizon, entry, block>>

\* SearchNode::sample, lines 176-185: a chance node samples a percept
SampleChance ==
    /\ pc = "sample"
    /\ Top.horizon # 0
    /\ m_search_tree[Top.node].m_type = "chance"
    /\ \E g \in genPerceptAndUpdate(Agent) :
          /\ SetAgent(g.agent)
          /\ m_search_tree' = WithChild(m_search_tree, Top.node,
                                        ChanceChildIndex(g.o, g.r), "decision")
          /\ stack' = Append([stack EXCEPT ![Len(stack)].r = g.r],
                             Frame(Append(Top.node, ChanceChildIndex(g.o, g.r)),
                                   Top.horizon - 1))
          /\ call' = [op |-> "genPerceptAndUpdate", pre |-> Agent, o |-> g.o, r |-> g.r]
    /\ UNCHANGED <<env, options, cycle, explore, explored, action, pc,
                   undo, sim, reward, horizon, entry, block>>

\* SearchNode::sample, lines 186-191, and Agent::playout: one turn of the playout loop
SamplePlayout ==
    /\ \/ /\ pc = "sample"
          /\ Top.horizon # 0
          /\ m_search_tree[Top.node].m_type = "decision"
          /\ m_search_tree[Top.node].m_visits = 0
       \/ pc = "playout"
    /\ LET h   == IF pc = "sample" THEN Top.horizon ELSE horizon
           acc == IF pc = "sample" THEN 0 ELSE reward
       IN  IF h > 0
           THEN \E a \in genRandomAction :
                  \E g \in genPerceptAndUpdate(modelUpdateAction(Agent, a)) :
                     /\ SetAgent(g.agent)
                     /\ reward' = acc + g.r
                     /\ horizon' = h - 1
                     /\ pc' = IF h - 1 > 0 THEN "playout" ELSE "return"
                     /\ call' = [op |-> "playout", pre |-> Agent, action |-> a,
                                 mid |-> modelUpdateAction(Agent, a), o |-> g.o, r |-> g.r]
           ELSE /\ reward' = acc
                /\ horizon' = h
                /\ pc' = "return"
                /\ call' = NoCall
                /\ UNCHANGED <<m_ct, agentVars>>
    /\ UNCHANGED <<env, options, cycle, explore, explored, action,
                   m_search_tree, undo, sim, stack, entry, block>>

\* SearchNode::sample, lines 192-201: a visited decision node selects an action
SampleDecision ==
    /\ pc = "sample"
    /\ Top.horizon # 0
    /\ m_search_tree[Top.node].m_type = "decision"
    /\ m_search_tree[Top.node].m_visits # 0
    /\ \E a \in selectAction(m_search_tree, Top.node) :
          /\ SetAgent(modelUpdateAction(Agent, a))
          /\ m_search_tree' = WithChild(m_search_tree, Top.node, a, "chance")
          /\ stack' = Append(stack, Frame(Append(Top.node, a), Top.horizon))
          /\ call' = [op |-> "modelUpdateAction", pre |-> Agent, action |-> a]
    /\ UNCHANGED <<env, options, cycle, explore, explored, action, pc,
                   undo, sim, reward, horizon, entry, block>>

\* SearchNode::sample, lines 203-207, in every call on the stack
SampleReturn ==
    /\ pc = "return"
    /\ m_search_tree' = Unwind(m_search_tree, stack, reward)
    /\ stack' = <<>>
    /\ pc' = "revert"
    /\ call' = NoCall
    /\ UNCHANGED <<m_ct, agentVars, env, options, cycle, explore, explored, action,
                   undo, sim, reward, horizon, entry, block>>

\* Agent::search, lines 221: modelRevert(undo), and the loop counter
ModelRevert ==
    /\ pc = "revert"
    /\ SetAgent(modelRevert(Agent, undo))
    /\ sim' = sim + 1
    /\ reward' = 0
    /\ horizon' = 0
    /\ pc' = "search"
    /\ call' = [op |-> "modelRevert", pre |-> Agent]
    /\ UNCHANGED <<env, options, cycle, explore, explored, action,
                   m_search_tree, undo, stack, entry, block>>

\* Agent::search, lines 224-242: the best action is chosen and the tree deleted
SearchEnd ==
    /\ pc = "search"
    /\ sim >= m_mc_simulations
    /\ action' \in BestActions(m_search_tree)
    /\ call' = [op |-> "search", tree |-> m_search_tree]
    /\ m_search_tree' = NoTree
    /\ undo' = NoUndo
    /\ sim' = 0
    /\ pc' = "perform"
    /\ UNCHANGED <<m_ct, agentVars, env, options, cycle, explore, explored,
                   stack, reward, horizon, entry, block>>

\* mainLoop, lines 97-129: the action reaches the environment and the agent
MainLoopAct ==
    /\ pc = "perform"
    /\ env' \in performAction(action)
    /\ SetAgent(modelUpdateAction(Agent, action))
    /\ call' = [op |-> "modelUpdateAction", pre |-> Agent, action |-> action]
    /\ cycle' = cycle + 1
    /\ entry' = NoEntry
    /\ pc' = "loop"
    /\ UNCHANGED <<options, explore, explored, action, m_search_tree, undo, sim, stack,
                   reward, horizon, block>>

Next ==
    \/ MainLoopPercept
    \/ MainLoopExit
    \/ ExploreAction
    \/ SearchBegin
    \/ SampleBegin
    \/ SampleHorizon
    \/ SampleChance
    \/ SamplePlayout
    \/ SampleDecision
    \/ SampleReturn
    \/ ModelRevert
    \/ SearchEnd
    \/ MainLoopAct

Spec == Init /\ [][Next]_vars


(***************************************************************************)
(* Claims about the agent: search, the update protocol, action updates.    *)
(***************************************************************************)
\* search() stands between two simulations, or has returned its action
SearchAtRest == pc = "search" \/ (pc = "perform" /\ ~explored)

\* C4: when search() returns, and after each of its simulations has been
\* reverted, the agent's age, total reward, history length and last-update
\* tag equal their values at the moment search() was called.
C4_SearchRestoresAgent ==
    SearchAtRest =>
        /\ m_time_cycle = entry.m_time_cycle
        /\ m_total_reward = entry.m_total_reward
        /\ Len(m_ct.m_history) = Len(entry.m_ct.m_history)
        /\ m_last_update = entry.m_last_update

\* C4 witness: the last simulation of a search has just been reverted, and
\* before the revert the age, the reward and the history length all differed
\* from those at the call of search()
C4_Witness ==
    /\ pc = "search"
    /\ sim = m_mc_simulations
    /\ m_mc_simulations = McSimulations
    /\ call.op = "modelRevert"
    /\ call.pre.m_time_cycle > entry.m_time_cycle
    /\ call.pre.m_total_reward > entry.m_total_reward
    /\ Len(call.pre.m_ct.m_history) > Len(entry.m_ct.m_history) + perceptBits
    /\ m_horizon > 1

\* C5: at the moment each call of root.sample begins, and when search()
\* returns, the history of the context tree (length and content) and the
\* symbol counts of every node equal those at the call of search().
C5_SimulationStartsFromPreSearchModel ==
    SearchAtRest =>
        /\ m_ct.m_history = entry.m_ct.m_history
        /\ SameCounts(m_ct.m_root, entry.m_ct.m_root)

\* C5 witness: a simulation that went through tree descent and playout and
\* trained the tree on its way has just been reverted
C5_Witness ==
    /\ pc = "search"
    /\ call.op = "modelRevert"
    /\ ~SameCounts(call.pre.m_ct.m_root, entry.m_ct.m_root)
    /\ \E path \in DOMAIN m_search_tree :
          /\ Len(path) = 2
          /\ m_search_tree[path].m_visits > 0
    /\ \E path \in DOMAIN entry.m_ct.m_root : visits(entry.m_ct.m_root[path]) > 0

\* the effect of modelUpdate(action) on the agent pre, as C10 states it
ActionUpdated(pre, post) ==
    /\ Len(post.m_ct.m_history) = Len(pre.m_ct.m_history) + actionBits
    /\ SubSeq(post.m_ct.m_history, 1, Len(pre.m_ct.m_history)) = pre.m_ct.m_history
    /\ post.m_time_cycle = pre.m_time_cycle + 1
    /\ post.m_last_update = "action_update"
    /\ post.m_ct.m_root = pre.m_ct.m_root
    /\ post.m_total_reward = pre.m_total_reward

\* C9: in the interaction loop, search() and playout() included, the percept
\* updates and genPerceptAndUpdate are called when the last update was an
\* action, modelUpdate(action) when it was a percept and with a valid action:
\* no protocol assertion fails.
C9_UpdateProtocolRespected ==
    /\ violations = {}
    /\ call.op = "genPerceptAndUpdate" => call.pre.m_last_update = "action_update"
    /\ call.op = "playout" =>
          /\ call.pre.m_last_update = "percept_update"
          /\ call.mid.m_last_update = "action_update"
          /\ isValidAction(call.action)
    /\ call.op = "modelUpdateAction" =>
          /\ call.pre.m_last_update = "percept_update"
          /\ isValidAction(call.action)
    /\ call.op = "modelUpdatePercept" => call.pre.m_last_update = "action_update"

\* C9 witness: the second cycle's search has returned, having descended the
\* search tree through a chance node and played out
C9_Witness ==
    /\ pc = "perform"
    /\ cycle = 2
    /\ call.op = "search"
    /\ \E path \in DOMAIN call.tree :
          /\ Len(path) = 2
          /\ call.tree[path].m_visits > 0
    /\ m_horizon > 1

\* C10: modelUpdate(action) appends exactly actionBits symbols to the
\* history, increments the age by one and sets the last update to action;
\* the nodes of the context tree, their counts and probabilities, and the
\* total reward stay as they were.
C10_ActionUpdateNeverTrains ==
    /\ call.op = "modelUpdateAction" => ActionUpdated(call.pre, Agent)
    /\ call.op = "playout" => ActionUpdated(call.pre, call.mid)

\* C10 witness: an action update inside search() on a trained context tree
\* with a full context
C10_Witness ==
    /\ call.op = "modelUpdateAction"
    /\ pc = "sample"
    /\ Len(call.pre.m_ct.m_history) >= Depth
    /\ Cardinality(DOMAIN m_ct.m_root) > 1


(***************************************************************************)
(* The agent's model on its own: a client that calls the two model updates *)
(* in turn, as the update protocol asks, with any percept and any action.  *)
(***************************************************************************)
InitAgent ==
    /\ AgentReset
    /\ SearchIdle
    /\ env = NoEnv
    /\ m_horizon = Horizon
    /\ m_mc_simulations = McSimulations
    /\ m_learning_period \in 0..LearningPeriod
    /\ cycle = 1
    /\ explore = FALSE
    /\ explored = FALSE
    /\ action = 0
    /\ pc = "agent"
    /\ block = NoBlock
    /\ call = NoCall

\* Agent::modelUpdate(percept_t, percept_t)
PerceptUpdate(o, r) ==
    /\ pc = "agent"
    /\ m_last_update = "action_update"
    /\ m_time_cycle <= MaxAge
    /\ SetAgent(modelUpdatePercept(Agent, o, r))
    /\ call' = [op |-> "modelUpdatePercept", pre |-> Agent,
                observation |-> o, reward |-> r]
    /\ UNCHANGED <<loopVars, searchVars, block>>

\* Agent::modelUpdate(action_t)
ActionUpdate(a) ==
    /\ pc = "agent"
    /\ m_last_update = "percept_update"
    /\ m_time_cycle <= MaxAge
    /\ SetAgent(modelUpdateAction(Agent, a))
    /\ call' = [op |-> "modelUpdateAction", pre |-> Agent, action |-> a]
    /\ UNCHANGED <<loopVars, searchVars, block>>

NextAgent ==
    \/ \E o \in 0..maxObservation, r \in 0..maxReward : PerceptUpdate(o, r)
    \/ \E a \in 0..maxAction : ActionUpdate(a)

SpecAgent == InitAgent /\ [][NextAgent]_vars

\* every context of at most Depth symbols
Contexts == UNION {[1..n -> Symbols] : n \in 0..Depth}

\* how many of the symbols syms, arriving after the history h, are equal to s
\* and arrive when the history holds Depth symbols or more and ends with the
\* context q (newest symbol first)
TrainedOn(h, syms, q, s) ==
    Cardinality({i \in 1..Len(syms) :
                    LET hi == h \o SubSeq(syms, 1, i - 1)
                    IN  /\ syms[i] = s
                        /\ Len(hi) >= Depth
                        /\ \A j \in 1..Len(q) : q[j] = hi[Len(hi) + 1 - j]})

\* the learning period of the agent ag is over
Frozen(ag) == ag.m_learning_period > 0 /\ ag.m_time_cycle > ag.m_learning_period

\* C11: with a learning period P > 0 and age > P, modelUpdate(observation,
\* reward) only appends the percept bits to the history and changes no
\* node's counts; with P = 0 or age <= P it trains the tree: each percept
\* bit that arrives when the history holds at least Depth symbols is counted
\* once in every node of its context path.
C11_PerceptUpdateTrainsUntilFrozen ==
    call.op = "modelUpdatePercept" =>
        LET pre  == call.pre
            syms == encodePercept(call.observation, call.reward)
        IN  /\ m_ct.m_history = pre.m_ct.m_history \o syms
            /\ Len(syms) = perceptBits
            /\ \A q \in Contexts : \A s \in Symbols :
                  CountsAt(m_ct.m_root, q)[s + 1] =
                     CountsAt(pre.m_ct.m_root, q)[s + 1]
                       + (IF Frozen(pre) THEN 0
                          ELSE TrainedOn(pre.m_ct.m_history, syms, q, s))

\* C11 witness: a percept update after the learning period, on a tree that
\* was trained before
C11_Witness ==
    /\ call.op = "modelUpdatePercept"
    /\ Frozen(call.pre)
    /\ visits(m_ct.m_root[<<>>]) > 0
    /\ Len(call.pre.m_ct.m_history) >= Depth

\* C12: in the interaction loop with a learning period P > 0, in every
\* cycle in which exploration is disabled because the learning period is
\* exceeded (cycle > P), the percept update of that cycle is history-only:
\* it appends the percept bits and trains no node.
C12_ExplorationAndTrainingFrozenTogether ==
    (/\ pc = "act"
     /\ call.op = "modelUpdatePercept"
     /\ m_learning_period > 0
     /\ cycle > m_learning_period) =>
        /\ ~explore
        /\ m_ct.m_history =
              call.pre.m_ct.m_history \o encodePercept(call.observation, call.reward)
        /\ SameCounts(m_ct.m_root, call.pre.m_ct.m_root)

(***************************************************************************)
(* The bit codec on its own: a client that encodes values, decodes what it *)
(* encoded, asks for bit widths, and encodes and decodes percepts of       *)
(* environments of several sizes.                                          *)
(***************************************************************************)
InitCodec ==
    /\ AgentReset
    /\ SearchIdle
    /\ env = NoEnv
    /\ m_horizon = Horizon
    /\ m_mc_simulations = McSimulations
    /\ m_learning_period = 0
    /\ cycle = 1
    /\ explore = FALSE
    /\ explored = FALSE
    /\ action = 0
    /\ pc = "codec"
    /\ block = NoBlock
    /\ call = NoCall

\* the widths the client encodes with: the small ones, and the widest allowed
Widths == (1..MaxBits) \cup {31}

\* the values the client encodes with `bits` symbols
Values(bits) ==
    IF bits <= MaxBits THEN 0..(2 ^ MaxBits - 1)
    ELSE {0, 1, 2, 2 ^ 30 - 1, 2 ^ 30, 2 ^ 30 + 1, 1431655765, INT_MAX - 1, INT_MAX}

\* encode(symbols, value, bits)
Encode(symbols, value, bits) ==
    /\ pc = "codec"
    /\ call' = [op |-> "encode", symbols |-> symbols, value |-> value, bits |-> bits,
                result |-> encode(symbols, value, bits)]
    /\ UNCHANGED <<m_ct, agentVars, loopVars, searchVars, block>>

\* decode(symbols, bits) of the list the last encode produced
Decode ==
    /\ pc = "codec"
    /\ call.op = "encode"
    /\ call' = [op |-> "decode", symbols |-> call.result, bits |-> call.bits,
                encoded |-> call.value, onto |-> call.symbols,
                result |-> decode(call.result, call.bits)]
    /\ UNCHANGED <<m_ct, agentVars, loopVars, searchVars, block>>

\* bitsRequired(x): the call returns a width, or its behaviour is undefined
\* and it returns any width or never returns
BitsRequired(x) ==
    /\ pc = "codec"
    /\ \E outcome \in IF bitsRequired(x) # -1
                      THEN {[returned |-> TRUE, result |-> bitsRequired(x)]}
                      ELSE {[returned |-> FALSE, result |-> 0]}
                           \cup {[returned |-> TRUE, result |-> b] : b \in 1..32} :
          call' = [op |-> "bitsRequired", x |-> x, returned |-> outcome.returned,
                   result |-> outcome.result]
    /\ UNCHANGED <<m_ct, agentVars, loopVars, searchVars, block>>

\* Agent::encodePercept in an environment with observations 0..maxO and
\* rewards 0..maxR
EncodePercept(maxO, maxR, o, r) ==
    /\ pc = "codec"
    /\ call' = [op |-> "encodePercept", observation |-> o, reward |-> r,
                oBits |-> bitsRequired(maxO), rBits |-> bitsRequired(maxR),
                result |-> encodePerceptIn(o, r, bitsRequired(maxO), bitsRequired(maxR))]
    /\ UNCHANGED <<m_ct, agentVars, loopVars, searchVars, block>>

\* Agent::decodePercept of the list the last encodePercept produced
DecodePercept ==
    /\ pc = "codec"
    /\ call.op = "encodePercept"
    /\ call' = [op |-> "decodePercept", symlist |-> call.result,
                observation |-> call.observation, reward |-> call.reward,
                oBits |-> call.oBits, rBits |-> call.rBits,
                result |-> decodePerceptIn(call.result, call.oBits, call.rBits)]
    /\ UNCHANGED <<m_ct, agentVars, loopVars, searchVars, block>>

NextCodec ==
    \/ \E symbols \in SymLists(MaxSyms), bits \in Widths :
          \E value \in Values(bits) : Encode(symbols, value, bits)
    \/ Decode
    \/ \E x \in (0..MaxX) \cup {2 ^ 30 - 1, 2 ^ 30, INT_MAX} : BitsRequired(x)
    \/ \E maxO \in 1..MaxPercept, maxR \in 1..MaxPercept :
          \E o \in 0..maxO, r \in 0..maxR : EncodePercept(maxO, maxR, o, r)
    \/ DecodePercept

SpecCodec == InitCodec /\ [][NextCodec]_vars

\* bit i of the value v (i = 0 the least significant)
Bit(v, i) == (v \div (2 ^ i)) % 2

\* v < 2^b, for a non-negative int v
Fits(v, b) == b >= 31 \/ v < 2 ^ b

\* C13: for every width b in 1..31 and every value v with 0 <= v < 2^b,
\* decode(encode(v, b), b) = v, also when encode appended to a list that
\* was not empty.
C13_BitRoundTrip ==
    (call.op = "decode" /\ Fits(call.encoded, call.bits)) => call.result = call.encoded

\* C13 witness: a value of more than one bit, with a 1 as its last bit only,
\* was encoded onto a non-empty list and decoded
C13_Witness ==
    /\ call.op = "decode"
    /\ call.onto # <<>>
    /\ call.bits = 31
    /\ call.encoded = 2 ^ 30
    /\ call.result = 2 ^ 30

\* C14: encode(symbols, v, b) appends exactly b symbols and leaves the
\* symbols already in the list as they were; the i-th appended symbol
\* (i = 0 first) is bit i of v.
C14_EncodeAppendsLsbFirst ==
    call.op = "encode" =>
        /\ Len(call.result) = Len(call.symbols) + call.bits
        /\ SubSeq(call.result, 1, Len(call.symbols)) = call.symbols
        /\ \A i \in 0..(call.bits - 1) :
              call.result[Len(call.symbols) + 1 + i] = Bit(call.value, i)

\* C14 witness: the value 1 encoded with several symbols onto a non-empty list
C14_Witness ==
    /\ call.op = "encode"
    /\ call.symbols # <<>>
    /\ call.bits = MaxBits
    /\ call.value = 1
    /\ call.result[Len(call.symbols) + 1] = 1

\* ceil(log2(x + 1)), and 1 for x = 0
CeilLog2Succ(x) ==
    IF x = 0 THEN 1 ELSE CHOOSE b \in 1..31 : Fits(x, b) /\ ~Fits(x, b - 1)

\* C15: for every non-negative int x, bitsRequired(x) returns
\* ceil(log2(x + 1)), and 1 for x = 0, so that every value in 0..x is
\* representable in bitsRequired(x) bits.
C15_BitsRequiredIsCeilLog2 ==
    call.op = "bitsRequired" =>
        /\ call.returned
        /\ call.result = CeilLog2Succ(call.x)
        /\ Fits(call.x, call.result)

\* C16: for every observation o in 0..maxObservation and reward r in
\* 0..maxReward, encodePercept produces exactly perceptBits symbols, the
\* reward bits first and then the observation bits, each least significant
\* bit first, and decodePercept of that list returns (o, r).
C16_PerceptRoundTrip ==
    call.op = "decodePercept" =>
        /\ Len(call.symlist) = call.oBits + call.rBits
        /\ \A i \in 0..(call.rBits - 1) : call.symlist[1 + i] = Bit(call.reward, i)
        /\ \A i \in 0..(call.oBits - 1) :
              call.symlist[call.rBits + 1 + i] = Bit(call.observation, i)
        /\ call.result.observation = call.observation
        /\ call.result.reward = call.reward

\* C16 witness: a percept of two-bit fields, the observation and the reward
\* different and neither its own mirror image, was encoded and decoded
C16_Witness ==
    /\ call.op = "decodePercept"
    /\ call.oBits = 2
    /\ call.rBits = 2
    /\ call.observation = 1
    /\ call.reward = 2

(***************************************************************************)
(* Claims about the first symbols of a context tree.                       *)
(***************************************************************************)
\* C17 as stated: on a fresh ContextTree the block probability is 1, and
\* after the single call update(0) it is 1/2.
C17_KTBaseCase ==
    /\ m_ct = NewContextTree => logBlockProbability(m_ct) = ROne
    /\ (/\ call.op = "update"
        /\ call.pre = NewContextTree
        /\ call.symbol = 0) => logBlockProbability(m_ct) = <<1, 2>>

\* C17 amended: on a fresh ContextTree the block probability is 1; the
\* single call update(0) only fills the history and leaves it 1; the first
\* update(0) that finds Depth symbols of history, on a tree that has counted
\* nothing, makes it 1/2.
C17_KTBaseCaseWithContext ==
    /\ m_ct = NewContextTree => logBlockProbability(m_ct) = ROne
    /\ (/\ call.op = "update"
        /\ call.pre = NewContextTree
        /\ call.symbol = 0) =>
           /\ logBlockProbability(m_ct) = ROne
           /\ m_ct.m_root = call.pre.m_root
    /\ (/\ call.op = "update"
        /\ visits(call.pre.m_root[<<>>]) = 0
        /\ Len(call.pre.m_history) >= Depth
        /\ call.symbol = 0) =>
           /\ logBlockProbability(m_ct) = <<1, 2>>
           /\ m_ct.m_root[<<>>].m_count = <<1, 0>>

\* C17 witness: update(0) was the first update to find Depth symbols of history
C17_Witness ==
    /\ call.op = "update"
    /\ call.symbol = 0
    /\ visits(call.pre.m_root[<<>>]) = 0
    /\ Len(call.pre.m_history) >= Depth
    /\ size(m_ct.m_root) = Depth + 1

\* C18: predict(symbol) returns exactly 1/2 whenever the history is shorter
\* than Depth, and predict(k symbols) returns exactly (1/2)^k whenever the
\* history length plus k is at most Depth; neither touches the tree or the
\* history.
C18_UniformWithoutContext ==
    /\ (call.op = "predict" /\ Len(call.pre.m_history) < Depth) =>
           /\ call.value = <<1, 2>>
           /\ m_ct = call.pre
    /\ (/\ call.op = "predictList"
        /\ Len(call.pre.m_history) + Len(call.symbols) <= Depth) =>
           /\ call.value = <<1, 2 ^ Len(call.symbols)>>
           /\ m_ct = call.pre

\* C18 witness: a list of symbols was predicted after a history that, with
\* the list, is no longer than Depth
C18_Witness ==
    /\ call.op = "predictList"
    /\ Len(call.symbols) >= 1
    /\ Len(call.pre.m_history) >= 1
    /\ Len(call.pre.m_history) + Len(call.symbols) <= Depth

(***************************************************************************)
(* Claims about the result and the length of a search.                     *)
(***************************************************************************)
\* the actions whose child the root of the search tree st has
RootChildren(st) == {a \in 0..maxAction : <<a>> \in DOMAIN st}

\* C19: search() returns a valid action; when the root has a child, the
\* action returned is one whose child exists and whose mean is at least
\* every other root child's mean minus the tie-break noise 1e-4; when the
\* root has no child the random action drawn first is returned.
C19_SearchReturnsBestAction ==
    call.op = "search" =>
        /\ action \in 0..maxAction
        /\ RootChildren(call.tree) # {} =>
              /\ action \in RootChildren(call.tree)
              /\ \A b \in RootChildren(call.tree) :
                    ~RLess(RAdd(call.tree[<<action>>].m_mean, SearchNoise),
                           call.tree[<<b>>].m_mean)

\* C19 witness: search() has returned the better of two root children whose
\* means differ
C19_Witness ==
    /\ call.op = "search"
    /\ Cardinality(RootChildren(call.tree)) = 2
    /\ \E b \in RootChildren(call.tree) :
          RLess(call.tree[<<b>>].m_mean, call.tree[<<action>>].m_mean)

\* search() is running: between its entry and the choice of the best action
SearchRunning == pc \in {"search", "sample", "playout", "return", "revert"}

\* the simulations of search() are counted: the root has one visit for each
\* call of root.sample that returned, and each is followed by one revert
SimulationsCounted ==
    /\ pc = "search" =>
          /\ sim <= m_mc_simulations
          /\ m_search_tree[<<>>].m_visits = sim
    /\ pc \in {"sample", "playout", "return"} =>
          /\ sim < m_mc_simulations
          /\ m_search_tree[<<>>].m_visits = sim
    /\ pc = "revert" =>
          /\ sim < m_mc_simulations
          /\ m_search_tree[<<>>].m_visits = sim + 1
    /\ call.op = "search" => call.tree[<<>>].m_visits = m_mc_simulations

\* a bound on the steps search() still has to take: the simulations left,
\* and within a simulation the horizon left to descend or to play out
SearchVariant ==
    LET K    == 2 * m_horizon + 7
        left == m_mc_simulations - sim
    IN  CASE pc = "search"  -> left * K + 1
          [] pc = "sample"  -> (left - 1) * K + 4 + 2 * Top.horizon
                                 + (IF m_search_tree[Top.node].m_type = "decision"
                                    THEN 1 ELSE 0)
          [] pc = "playout" -> (left - 1) * K + 3 + horizon
          [] pc = "return"  -> (left - 1) * K + 3
          [] pc = "revert"  -> (left - 1) * K + 2
          [] OTHER          -> 0

\* search() can take its next step: the call in progress has a node to
\* sample, an action to select and a percept to generate
SearchCanStep ==
    /\ pc = "sample" =>
          /\ stack # <<>>
          /\ Top.node \in DOMAIN m_search_tree
          /\ Top.horizon >= 0
          /\ (Top.horizon # 0 /\ m_search_tree[Top.node].m_type = "chance")
                => genPerceptAndUpdate(Agent) # {}
          /\ (/\ Top.horizon # 0
              /\ m_search_tree[Top.node].m_type = "decision"
              /\ m_search_tree[Top.node].m_visits # 0)
                => selectAction(m_search_tree, Top.node) # {}
    /\ pc = "playout" =>
          /\ horizon > 0
          /\ \A a \in genRandomAction :
                genPerceptAndUpdate(modelUpdateAction(Agent, a)) # {}
    /\ pc = "search" => <<>> \in DOMAIN m_search_tree
    /\ genRandomAction # {}

\* C20: search() terminates after running exactly M simulations: while it
\* runs it can always take a step and every step brings it nearer its end;
\* root.sample is called M times, each call followed by one model revert,
\* and the root has M visits when the best action is chosen.
C20_ExactlyMSimulations ==
    /\ [](SimulationsCounted /\ (SearchRunning => SearchCanStep))
    /\ [][SearchRunning => (SearchVariant' >= 0 /\ SearchVariant' < SearchVariant)]_vars

\* C20 witness: search() has returned after the largest number of simulations
C20_Witness ==
    /\ call.op = "search"
    /\ m_mc_simulations = McSimulations
    /\ call.tree[<<>>].m_visits = McSimulations
    /\ pc = "perform"

(***************************************************************************)
(* The random-number functions on their own: a client that calls rand01    *)
(* and randRange; every call of rand() can give any of 0..RAND_MAX.        *)
(***************************************************************************)
\* everything but pc and call as it is before any agent or environment runs
Standalone ==
    /\ AgentReset
    /\ SearchIdle
    /\ env = NoEnv
    /\ m_horizon = Horizon
    /\ m_mc_simulations = McSimulations
    /\ m_learning_period = 0
    /\ cycle = 1
    /\ explore = FALSE
    /\ explored = FALSE
    /\ action = 0
    /\ block = NoBlock

InitRand ==
    /\ Standalone
    /\ pc = "rand"
    /\ call = NoCall

\* rand01()
Rand01(raw) ==
    /\ pc = "rand"
    /\ call' = [op |-> "rand01", raw |-> raw, value |-> rand01(raw)]
    /\ UNCHANGED <<m_ct, agentVars, loopVars, searchVars, block>>

\* randRange(end), lines 313-316: the first call of rand()
RandRangeCall(end, raw) ==
    /\ pc = "rand"
    /\ call' = [op |-> "randRange", end |-> end, r |-> raw, returned |-> FALSE,
                result |-> 0]
    /\ UNCHANGED <<m_ct, agentVars, loopVars, searchVars, block>>

\* randRange(end), line 318: one turn of the rejection loop
RandRangeRetry(raw) ==
    /\ pc = "rand"
    /\ call.op = "randRange"
    /\ ~call.returned
    /\ ~randRangeAccepts(call.r, call.end)
    /\ call' = [call EXCEPT !.r = raw]
    /\ UNCHANGED <<m_ct, agentVars, loopVars, searchVars, block>>

\* randRange(end), line 319: the return
RandRangeReturn ==
    /\ pc = "rand"
    /\ call.op = "randRange"
    /\ ~call.returned
    /\ randRangeAccepts(call.r, call.end)
    /\ call' = [call EXCEPT !.returned = TRUE,
                            !.result = randRangeResult(call.r, call.end)]
    /\ UNCHANGED <<m_ct, agentVars, loopVars, searchVars, block>>

NextRand ==
    \/ \E raw \in 0..RAND_MAX : Rand01(raw)
    \/ \E end \in 1..RAND_MAX, raw \in 0..RAND_MAX : RandRangeCall(end, raw)
    \/ \E raw \in 0..RAND_MAX : RandRangeRetry(raw)
    \/ RandRangeReturn

SpecRand == InitRand /\ [][NextRand]_vars

\* C21: rand01() returns a value in [0, 1): whatever rand() gives in
\* 0..RAND_MAX, the result is at least 0 and strictly less than 1.
C21_Rand01HalfOpen ==
    call.op = "rand01" =>
        /\ ~RLess(call.value, RZero)
        /\ RLess(call.value, ROne)

\* the accepted outcomes of rand() for which randRange(end) returns v
RandRangeHits(end, v) ==
    Cardinality({raw \in 0..RAND_MAX :
                    randRangeAccepts(raw, end) /\ randRangeResult(raw, end) = v})

\* C22: for every end in 1..RAND_MAX, randRange(end) returns a value in
\* 0..end-1 and is uniform: every value of 0..end-1 is produced by the same
\* number of accepted outcomes of rand().
C22_RandRangeUniform ==
    (call.op = "randRange" /\ call.returned) =>
        /\ call.result \in 0..(call.end - 1)
        /\ \A v, w \in 0..(call.end - 1) :
              RandRangeHits(call.end, v) = RandRangeHits(call.end, w)

(***************************************************************************)
(* Termination of mainLoop on terminate-age.                               *)
(***************************************************************************)
\* the age of the agent as mainLoop sees it: the simulations of search()
\* age the agent and modelRevert rejuvenates it
LoopAge == IF SearchRunning THEN entry.m_time_cycle ELSE m_time_cycle

\* a cycle of mainLoop has been started and its action not yet performed
CycleStarted == pc \in {"act", "perform"} \/ SearchRunning

\* a bound on the steps mainLoop still has to take: the cycles left, and
\* within a cycle the steps to the performing of its action
LoopVariant ==
    LET S    == m_mc_simulations * (2 * m_horizon + 7) + 1
        C    == S + 7
        left == TerminateAge + 1 - LoopAge
    IN  CASE pc = "loop"    -> left * C + 1
          [] pc = "act"     -> (left - 1) * C + S + 5
          [] SearchRunning  -> (left - 1) * C + 3 + SearchVariant
          [] pc = "perform" -> (left - 1) * C + 2
          [] OTHER          -> 0

\* mainLoop can take its next step
LoopCanStep ==
    /\ SearchRunning => SearchCanStep
    /\ pc = "act" => genRandomAction # {}
    /\ pc = "perform" => performAction(action) # {}

\* C23: with terminate-age T and an environment that never finishes, a cycle
\* of mainLoop is started only while age <= T, mainLoop has ended only with
\* age = T + 1, and it does end: until then it can always take a step and
\* every step brings it nearer its end.
C23_StopsAtTerminateAge ==
    /\ [](/\ CycleStarted => LoopAge <= TerminateAge
          /\ pc = "done" => m_time_cycle = TerminateAge + 1
          /\ pc # "done" => LoopCanStep)
    /\ [][pc # "done" => (LoopVariant' >= 0 /\ LoopVariant' < LoopVariant)]_vars

\* C23 witness: mainLoop has ended after T cycles
C23_Witness ==
    /\ pc = "done"
    /\ m_time_cycle = TerminateAge + 1
    /\ cycle = TerminateAge + 2

(***************************************************************************)
(* The command-line driver: main() as a sequence of steps.  The invocation *)
(* is the value of argc (the program name counts), whether the file named  *)
(* by argv[1] can be opened, and the value of the option "environment" in  *)
(* it.  The run is the record call; pc is the position in main().          *)
(***************************************************************************)
\* the names main() builds an environment for
EnvironmentNames ==
    {"coin-flip", "extended-tiger", "kuhn-poker", "maze", "pacman",
     "rock-paper-scissors", "tictactoe", "tiger"}

\* what the configuration file can say about the environment
EnvironmentOptions == EnvironmentNames \cup {"absent", "unknown"}

\* the largest argc tried
MaxArgc == 4

InitMain ==
    /\ Standalone
    /\ pc = "main"
    /\ \E n \in 1..MaxArgc, readable \in BOOLEAN, name \in EnvironmentOptions :
          call = [op |-> "main", argc |-> n, config_readable |-> readable,
                  environment |-> name, log_opened |-> FALSE,
                  env_built |-> FALSE, agent_built |-> FALSE,
                  status |-> "running"]

\* main, lines 203-209: the number of arguments
MainArguments ==
    /\ pc = "main"
    /\ IF call.argc < 2 \/ call.argc > 3
       THEN /\ call' = [call EXCEPT !.status = "EXIT_FAILURE"]
            /\ pc' = "exit"
       ELSE /\ call' = call
            /\ pc' = "main_logger"
    /\ UNCHANGED <<m_ct, agentVars, env, cycle, explore, explored, action, options,
                   searchVars, block>>

\* main, lines 212-215: logger.open(argv[2]) and the header.  With argc = 2
\* argv[2] is the null pointer that ends argv, and opening a stream on it is
\* undefined: the run is killed, or the open fails and the run goes on
\* without a log.
MainLogger ==
    /\ pc = "main_logger"
    /\ \/ /\ call.argc = 3
          /\ call' = [call EXCEPT !.log_opened = TRUE]
          /\ pc' = "main_config"
       \/ /\ call.argc = 2
          /\ call' = call
          /\ pc' = "main_config"
       \/ /\ call.argc = 2
          /\ call' = [call EXCEPT !.status = "killed"]
          /\ pc' = "exit"
    /\ UNCHANGED <<m_ct, agentVars, env, cycle, explore, explored, action, options,
                   searchVars, block>>

\* main, lines 229-236: the configuration file
MainConfig ==
    /\ pc = "main_config"
    /\ IF ~call.config_readable
       THEN /\ call' = [call EXCEPT !.status = "EXIT_FAILURE"]
            /\ pc' = "exit"
       ELSE /\ call' = call
            /\ pc' = "main_environment"
    /\ UNCHANGED <<m_ct, agentVars, env, cycle, explore, explored, action, options,
                   searchVars, block>>

\* main, lines 239-262, and requiredOption: the environment
MainEnvironment ==
    /\ pc = "main_environment"
    /\ IF call.environment \in EnvironmentNames
       THEN /\ call' = [call EXCEPT !.env_built = TRUE]
            /\ pc' = "main_agent"
       ELSE /\ call' = [call EXCEPT !.status = "EXIT_FAILURE"]
            /\ pc' = "exit"
    /\ UNCHANGED <<m_ct, agentVars, env, cycle, explore, explored, action, options,
                   searchVars, block>>

\* main, line 281: the agent
MainAgent ==
    /\ pc = "main_agent"
    /\ call' = [call EXCEPT !.agent_built = TRUE]
    /\ pc' = "main_loop"
    /\ UNCHANGED <<m_ct, agentVars, env, cycle, explore, explored, action, options,
                   searchVars, block>>

\* main, lines 284-288: mainLoop has returned, the log is closed
MainReturn ==
    /\ pc = "main_loop"
    /\ call' = [call EXCEPT !.status = "EXIT_SUCCESS"]
    /\ pc' = "exit"
    /\ UNCHANGED <<m_ct, agentVars, env, cycle, explore, explored, action, options,
                   searchVars, block>>

NextMain ==
    \/ MainArguments
    \/ MainLogger
    \/ MainConfig
    \/ MainEnvironment
    \/ MainAgent
    \/ MainReturn

SpecMain == InitMain /\ [][NextMain]_vars

\* an invocation the driver has to refuse: <config-file> or <log-file> is
\* missing, the configuration file cannot be opened, or it names an
\* environment that is not known
BadInvocation ==
    \/ call.argc < 3
    \/ ~call.config_readable
    \/ call.environment = "unknown"

\* C24: on an invocation with a positional argument missing, a configuration
\* file that cannot be opened or an unknown environment name, the driver
\* opens no log and builds no agent, and it exits with a non-zero status.
C24_DriverRefusesBadInvocation ==
    (call.op = "main" /\ BadInvocation) =>
        /\ ~call.log_opened
        /\ ~call.agent_built
        /\ pc = "exit" => call.status # "EXIT_SUCCESS"

(***************************************************************************)
(* The environment: Maze.  A maze is a record [m_num_rows, m_num_cols,     *)
(* m_obs_encoding, m_maze_layout, m_maze_rewards, m_max_reward, m_row,     *)
(* m_col, m_observation, m_reward, m_teleported, m_wall_collision]; the    *)
(* layout and the rewards are functions of <<row, col>>, from 0.           *)
(***************************************************************************)
\* the largest numbers of rows and of columns tried
MaxRows == 2
MaxCols == 2

\* the largest reward written in a maze-rewards option
MaxMazeReward == 1

aLeft == 0
aUp == 1
aRight == 2
aDown == 3

Maze_oNull == 0
oLeftWall == 1
oUpWall == 2
oRightWall == 4
oDownWall == 8

cWall == "@"
cTeleportTo == "*"
cTeleportFrom == "!"
cEmpty == "&"

\* Maze::maxAction
MazeMaxAction == 3

Squares(rows, cols) == (0..(rows - 1)) \X (0..(cols - 1))

IntMin(a, b) == IF a < b THEN a ELSE b

IntMax(a, b) == IF a > b THEN a ELSE b

\* Maze::maxObservation
MazeMaxObservation(mz) ==
    CASE mz.m_obs_encoding = "uninformative" -> Maze_oNull
      [] mz.m_obs_encoding = "walls"         -> aLeft + aUp + aRight + aDown
      [] mz.m_obs_encoding = "coordinates"   -> mz.m_num_rows * mz.m_num_cols - 1

\* Environment::isValidObservation, for a maze
MazeIsValidObservation(mz, o) == 0 <= o /\ o <= MazeMaxObservation(mz)

\* Environment::observationBits, for a maze
MazeObservationBits(mz) == bitsRequired(MazeMaxObservation(mz))

\* Maze::calculateObservation: the value given to m_observation
MazeObservation(mz) ==
    LET r == mz.m_row
        c == mz.m_col
        wall(rr, cc) == mz.m_maze_layout[<<rr, cc>>] = cWall
    IN  CASE mz.m_obs_encoding = "uninformative" -> Maze_oNull
          [] mz.m_obs_encoding = "walls" ->
                (IF c = 0 \/ wall(r, c - 1) THEN oLeftWall ELSE 0)
              + (IF r = 0 \/ wall(r - 1, c) THEN oUpWall ELSE 0)
              + (IF c + 1 = mz.m_num_cols \/ wall(r, c + 1) THEN oRightWall ELSE 0)
              + (IF r + 1 = mz.m_num_rows \/ wall(r + 1, c) THEN oDownWall ELSE 0)
          [] mz.m_obs_encoding = "coordinates" -> r * mz.m_num_cols + c

\* Maze::calculateObservation
calculateObservation(mz) == [mz EXCEPT !.m_observation = MazeObservation(mz)]

\* Maze::teleportAgent: the agent lands on any of the cTeleportTo squares
teleportAgent(mz) ==
    {[mz EXCEPT !.m_teleported = TRUE, !.m_row = sq[1], !.m_col = sq[2]] :
        sq \in {q \in DOMAIN mz.m_maze_layout : mz.m_maze_layout[q] = cTeleportTo}}

\* Maze::configure: the maze the options describe; the rewards are shifted
\* so that they begin at 0
configure(rows, cols, encoding, layout, rewards) ==
    LET sqs == Squares(rows, cols)
        min_reward == CHOOSE x \in 0..MaxMazeReward :
                         /\ \E q \in sqs : rewards[q] = x
                         /\ \A q \in sqs : rewards[q] >= x
        max_reward == CHOOSE x \in 0..MaxMazeReward :
                         /\ \E q \in sqs : rewards[q] = x
                         /\ \A q \in sqs : rewards[q] <= x
    IN  [m_num_rows |-> rows, m_num_cols |-> cols,
         m_obs_encoding |-> encoding,
         m_maze_layout |-> layout,
         m_maze_rewards |-> [q \in sqs |-> rewards[q] - min_reward],
         m_max_reward |-> max_reward - min_reward,
         m_row |-> 0, m_col |-> 0, m_observation |-> 0, m_reward |-> 0,
         m_teleported |-> FALSE, m_wall_collision |-> FALSE]

\* Maze::Maze: the mazes built from the options that configure accepts, for
\* the given dimensions and observation encoding
MazeInit(rows, cols, encoding) ==
    UNION { {calculateObservation(t) :
                t \in teleportAgent(configure(rows, cols, encoding, layout, rewards))}
            : layout \in [Squares(rows, cols) ->
                             {cWall, cTeleportTo, cTeleportFrom, cEmpty}],
              rewards \in [Squares(rows, cols) -> 0..MaxMazeReward] }

\* Maze::performAction
MazePerformAction(mz, a) ==
    LET row_to == IntMin(IntMax((IF a = aUp THEN -1 ELSE 0)
                                  + (IF a = aDown THEN 1 ELSE 0) + mz.m_row, 0),
                         mz.m_num_rows - 1)
        col_to == IntMin(IntMax((IF a = aLeft THEN -1 ELSE 0)
                                  + (IF a = aRight THEN 1 ELSE 0) + mz.m_col, 0),
                         mz.m_num_cols - 1)
        hit    == mz.m_maze_layout[<<row_to, col_to>>] = cWall
        moved  == [mz EXCEPT !.m_teleported = FALSE,
                             !.m_wall_collision = hit,
                             !.m_row = IF hit THEN @ ELSE row_to,
                             !.m_col = IF hit THEN @ ELSE col_to]
        placed == IF moved.m_maze_layout[<<moved.m_row, moved.m_col>>] = cTeleportFrom
                  THEN teleportAgent(moved)
                  ELSE {moved}
    IN  {calculateObservation([t EXCEPT !.m_reward = mz.m_maze_rewards[<<row_to, col_to>>]]) :
            t \in placed}

\* Maze::Maze (the layout array is allocated with m_num_cols rows: the mazes
\* tried have no more rows than columns)
InitMaze ==
    /\ AgentReset
    /\ SearchIdle
    /\ \E rows \in 1..MaxRows, cols \in 1..MaxCols,
          encoding \in {"uninformative", "walls", "coordinates"} :
          /\ rows <= cols
          /\ env \in MazeInit(rows, cols, encoding)
    /\ m_horizon = Horizon
    /\ m_mc_simulations = McSimulations
    /\ m_learning_period = 0
    /\ cycle = 1
    /\ explore = FALSE
    /\ explored = FALSE
    /\ action = 0
    /\ block = NoBlock
    /\ pc = "maze"
    /\ call = NoCall

\* a client performs a valid action
MazeAct(a) ==
    /\ pc = "maze"
    /\ env' \in MazePerformAction(env, a)
    /\ action' = a
    /\ call' = [op |-> "Maze::performAction", action |-> a]
    /\ UNCHANGED <<m_ct, agentVars, cycle, explore, explored, pc, options,
                   searchVars, block>>

NextMaze == \E a \in 0..MazeMaxAction : MazeAct(a)

SpecMaze == InitMaze /\ [][NextMaze]_vars

\* C25: in a Maze with the observation encoding "walls", maxObservation()
\* is 15, and every observation calculateObservation produces (after the
\* construction and after every action) satisfies isValidObservation and
\* fits in observationBits() bits.
C25_MazeWallsObservationValid ==
    (pc = "maze" /\ env.m_obs_encoding = "walls") =>
        /\ MazeMaxObservation(env) = oLeftWall + oUpWall + oRightWall + oDownWall
        /\ MazeIsValidObservation(env, env.m_observation)
        /\ Fits(env.m_observation, MazeObservationBits(env))

(***************************************************************************)
(* The environment: PacMan.  The game is a record [map, pacmanX, pacmanY,  *)
(* ghostX, ghostY, sniff, covering, poweredUp, powerLeft, timestep,        *)
(* resets, pelletCount, reset, m_observation, m_reward, m_action]; ghostX, *)
(* ghostY, sniff and covering are functions of the ghost "A".."D" (the     *)
(* members aGhostX..dGhostX, aGhostY.., sniffA.., aGhostCovering..).  The  *)
(* map is a tuple of rows of characters, map[y + 1][x + 1] for the C++     *)
(* map[y][x].                                                              *)
(***************************************************************************)
\* the largest number of actions performed in a game
MaxTimestep == 1

\* PacMan::maxAction
PacManMaxAction == 4

\* PacMan::maxReward
PacManMaxReward == 161

\* Environment::isValidAction, for PacMan
PacManIsValidAction(a) == 0 <= a /\ a <= PacManMaxAction

\* Environment::rewardBits, for PacMan
PacManRewardBits == bitsRequired(PacManMaxReward)

\* PacMan::PacMan: the map as written in the constructor
PacManMap ==
    <<
       <<" "," "," "," "," "," "," "," "," "," "," "," "," "," "," "," "," ">>,
       <<" ","*","*"," ","*","*","*"," ","*"," ","*","*","*"," ","*","*"," ">>,
       <<"O"," "," "," "," "," "," "," "," "," "," "," "," "," "," "," ","O">>,
       <<" ","*","*"," ","*"," ","*","*","*","*","*"," ","*"," ","*","*"," ">>,
       <<" "," "," "," ","*"," "," "," ","*"," "," "," ","*"," "," "," "," ">>,
       <<"*","*","*"," ","*","*","*"," ","*"," ","*","*","*"," ","*","*","*">>,
       <<"*","*","*"," ","*"," "," "," "," "," "," "," ","*"," ","*","*","*">>,
       <<"*","*","*"," ","*"," ","*"," ","A","B","*"," ","*"," ","*","*","*">>,
       <<"x"," "," "," ","*"," ","*"," ","C","D","*"," ","*"," "," "," ","x">>,
       <<"*","*","*"," ","*"," ","*","*","*","*","*"," ","*"," ","*","*","*">>,
       <<"*","*","*"," ","*"," "," "," "," "," "," "," ","*"," ","*","*","*">>,
       <<"*","*","*"," ","*"," ","*","*","*","*","*"," ","*"," ","*","*","*">>,
       <<" "," "," "," "," "," "," "," ","P"," "," "," "," "," "," "," "," ">>,
       <<" ","*","*"," ","*","*","*"," ","*"," ","*","*","*"," ","*","*"," ">>,
       <<"O"," ","*"," "," "," "," "," "," "," "," "," "," "," ","*"," ","O">>,
       <<"*"," ","*"," ","*"," ","*","*","*","*","*"," ","*"," ","*"," ","*">>,
       <<" "," "," "," ","*"," "," "," ","*"," "," "," ","*"," "," "," "," ">>,
       <<" ","*","*","*","*","*","*"," ","*"," ","*","*","*","*","*","*"," ">>,
       <<" "," "," "," "," "," "," "," "," "," "," "," "," "," "," "," "," ">>
    >>

MapAt(map, x, y) == map[y + 1][x + 1]

MapPut(map, x, y, ch) == [map EXCEPT ![y + 1][x + 1] = ch]

MapCells == (0..16) \X (0..18)

GhostNames == {"A", "B", "C", "D"}

\* the squares the ghosts start from (resetEpisode and resetGhost)
GhostHome(ghost) ==
    CASE ghost = "A" -> <<8, 7>>
      [] ghost = "B" -> <<9, 7>>
      [] ghost = "C" -> <<8, 8>>
      [] ghost = "D" -> <<9, 8>>

\* PacMan::manhattanDistance
manhattanDistance(x1, y1, x2, y2) == Abs(x1 - x2) + Abs(y1 - y2)

\* the character a ghost puts back when it leaves a square; "" when the
\* code puts nothing back
CoverChar(cover) ==
    CASE cover = 0 -> " "
      [] cover = 1 -> "."
      [] cover = 2 -> "O"
      [] cover = 3 -> "x"
      [] OTHER     -> ""

\* the value of covers for the character of the square a ghost moves to;
\* -1 when the code leaves covers as it is
CoverOf(ch) ==
    CASE ch = " " -> 0
      [] ch = "." -> 1
      [] ch = "O" -> 2
      [] ch = "x" -> 3
      [] OTHER    -> -1

\* the draws of randRange(2) in one resetEpisode, as the set of squares for
\* which the draw is 1: no square, every square, or every second square
PelletDraws ==
    { {}, MapCells, {q \in MapCells : (q[1] + q[2]) % 2 = 0} }

\* PacMan::resetEpisode
resetEpisode(pm, pellets) ==
    LET m1 == IF pm.resets + 1 > 1
              THEN MapPut(MapPut(MapPut(MapPut(MapPut(pm.map,
                       pm.pacmanX, pm.pacmanY, " "),
                       pm.ghostX["A"], pm.ghostY["A"], " "),
                       pm.ghostX["B"], pm.ghostY["B"], " "),
                       pm.ghostX["C"], pm.ghostY["C"], " "),
                       pm.ghostX["D"], pm.ghostY["D"], " ")
              ELSE pm.map
        m2 == MapPut(MapPut(MapPut(MapPut(m1, 0, 2, "O"), 16, 2, "O"), 0, 14, "O"),
                     16, 14, "O")
        m3 == MapPut(MapPut(MapPut(MapPut(MapPut(m2, 8, 12, "P"), 8, 7, "A"),
                     9, 7, "B"), 8, 8, "C"), 9, 8, "D")
        cleared(x, y) ==
            LET v0 == IF (x = 0 \/ x = 16) /\ y = 8 THEN "x" ELSE MapAt(m3, x, y)
            IN  IF v0 = "." THEN " " ELSE v0
        pellet(x, y) == cleared(x, y) = " " /\ <<x, y>> \in pellets
    IN  [pm EXCEPT
            !.resets = @ + 1,
            !.map = [r \in 1..19 |-> [c \in 1..17 |->
                        IF pellet(c - 1, r - 1) THEN "." ELSE cleared(c - 1, r - 1)]],
            !.pacmanX = 8, !.pacmanY = 12,
            !.ghostX = [g \in GhostNames |-> GhostHome(g)[1]],
            !.ghostY = [g \in GhostNames |-> GhostHome(g)[2]],
            !.pelletCount = Cardinality({q \in MapCells : pellet(q[1], q[2])}),
            !.sniff = [g \in GhostNames |-> 0],
            !.poweredUp = FALSE,
            !.powerLeft = 0,
            !.covering = [g \in GhostNames |-> 0],
            !.m_observation = 0,
            !.reset = FALSE]

\* PacMan::PacMan: the games after construction
PacManInit ==
    {[resetEpisode([map |-> PacManMap, pacmanX |-> 0, pacmanY |-> 0,
                    ghostX |-> [g \in GhostNames |-> 0],
                    ghostY |-> [g \in GhostNames |-> 0],
                    sniff |-> [g \in GhostNames |-> 0],
                    covering |-> [g \in GhostNames |-> 0],
                    poweredUp |-> FALSE, powerLeft |-> 0, timestep |-> 0,
                    resets |-> 0, pelletCount |-> 0, reset |-> FALSE,
                    m_observation |-> 0, m_reward |-> 0, m_action |-> 0],
                   pellets)
        EXCEPT !.timestep = 0, !.m_reward = 0] : pellets \in PelletDraws}

\* PacMan::resetGhost
resetGhost(pm, ghost) ==
    LET cover == pm.covering[ghost]
        oldX  == pm.ghostX[ghost]
        oldY  == pm.ghostY[ghost]
        home  == GhostHome(ghost)
        m1    == MapPut(pm.map, home[1], home[2], ghost)
    IN  [pm EXCEPT
            !.sniff[ghost] = 0,
            !.covering[ghost] = 0,
            !.ghostX[ghost] = home[1],
            !.ghostY[ghost] = home[2],
            !.map = IF cover \in {0, 1, 2}
                    THEN MapPut(m1, oldX, oldY, CoverChar(cover))
                    ELSE m1]

\* PacMan::movePacmanAndUpdateReward
movePacmanAndUpdateReward(pm, x, y) ==
    LET p0     == [pm EXCEPT !.m_reward = @ - 1]
        inside == ~(x < 0 \/ x > 16 \/ y < 0 \/ y > 18)
        ch     == IF inside THEN MapAt(pm.map, x, y) ELSE "*"
        warp   == (x < 0 \/ x > 16) /\ y = 8
        tx     == IF warp THEN (IF x < 0 THEN 16 ELSE 0) ELSE x
        p1     == CASE warp -> p0
                    [] ~warp /\ ch = "*" -> [p0 EXCEPT !.m_reward = @ - 10]
                    [] ~warp /\ ch \in GhostNames ->
                          IF p0.poweredUp
                          THEN resetGhost(p0, ch)
                          ELSE [p0 EXCEPT !.m_reward = @ - 50, !.reset = TRUE]
                    [] ~warp /\ ch = "." ->
                          IF p0.pelletCount - 1 = 0
                          THEN [p0 EXCEPT !.m_reward = @ + 10 + 100,
                                          !.pelletCount = @ - 1,
                                          !.reset = TRUE]
                          ELSE [p0 EXCEPT !.m_reward = @ + 10,
                                          !.pelletCount = @ - 1]
                    [] ~warp /\ ch = "O" ->
                          [p0 EXCEPT !.poweredUp = TRUE, !.powerLeft = 5]
                    [] OTHER -> p0
        validMove == warp \/ ch \in {".", "O", " ", "x"}
        p2     == IF validMove
                  THEN [p1 EXCEPT
                           !.map = MapPut(MapPut(@, p1.pacmanX, p1.pacmanY,
                                                 IF (p1.pacmanX = 0 \/ p1.pacmanX = 16)
                                                       /\ p1.pacmanY = 8
                                                 THEN "x" ELSE " "),
                                          tx, y, "P"),
                           !.pacmanX = tx,
                           !.pacmanY = y]
                  ELSE p1
    IN  IF p2.poweredUp
        THEN [p2 EXCEPT !.powerLeft = @ - 1, !.poweredUp = (p2.powerLeft - 1 > 0)]
        ELSE p2

\* PacMan::isValidGhostMove
isValidGhostMove(pm, x, y) ==
    ~(x < 0 \/ x > 16 \/ y < 0 \/ y > 18
        \/ MapAt(pm.map, x, y) \in {"*", "A", "B", "C", "D"})

\* a ghost has reached PacMan: it is eaten or it ends the episode
GhostCatches(pm, ghost) ==
    IF pm.poweredUp
    THEN resetGhost(pm, ghost)
    ELSE [pm EXCEPT !.m_reward = @ - 50, !.reset = TRUE]

\* the end of ghostRandomMove and of ghostPursuitMove: the ghost leaves its
\* square and covers the new one
GhostStep(pm, ghost, newX, newY) ==
    LET back == CoverChar(pm.covering[ghost])
        m1   == IF back # ""
                THEN MapPut(pm.map, pm.ghostX[ghost], pm.ghostY[ghost], back)
                ELSE pm.map
        cov  == CoverOf(MapAt(m1, newX, newY))
    IN  [pm EXCEPT
            !.covering[ghost] = IF cov # -1 THEN cov ELSE @,
            !.ghostX[ghost] = newX,
            !.ghostY[ghost] = newY,
            !.map = MapPut(m1, newX, newY, ghost)]

\* the squares up, right, down and left of a square, in the order of the code
Neighbours(x, y) == <<<<x, y - 1>>, <<x + 1, y>>, <<x, y + 1>>, <<x - 1, y>>>>

\* PacMan::ghostRandomMove: every game the draws of randRange(4) can lead to
ghostRandomMove(pm, ghost) ==
    LET nb      == Neighbours(pm.ghostX[ghost], pm.ghostY[ghost])
        meets(q) == q[1] = pm.pacmanX /\ q[2] = pm.pacmanY
        free(q)  == ~meets(q) /\ isValidGhostMove(pm, q[1], q[2])
    IN  {GhostCatches(pm, ghost) : i \in {k \in 1..4 : meets(nb[k])}}
        \cup {GhostStep(pm, ghost, nb[i][1], nb[i][2]) : i \in {k \in 1..4 : free(nb[k])}}
        \cup (IF \A k \in 1..4 : ~meets(nb[k]) /\ ~free(nb[k]) THEN {pm} ELSE {})

\* PacMan::ghostPursuitMove
ghostPursuitMove(pm, ghost) ==
    LET gx   == pm.ghostX[ghost]
        gy   == pm.ghostY[ghost]
        nb   == Neighbours(gx, gy)
        currentDistance == manhattanDistance(pm.pacmanX, pm.pacmanY, gx, gy)
        nearer(q) == /\ isValidGhostMove(pm, q[1], q[2])
                     /\ manhattanDistance(pm.pacmanX, pm.pacmanY, q[1], q[2])
                           < currentDistance
        pursuing == \E k \in 1..4 : nearer(nb[k])
        last == CHOOSE k \in 1..4 :
                   nearer(nb[k]) /\ \A j \in (k + 1)..4 : ~nearer(nb[j])
    IN  IF ~pursuing
        THEN ghostRandomMove(pm, ghost)
        ELSE IF nb[last][1] = pm.pacmanX /\ nb[last][2] = pm.pacmanY
             THEN {GhostCatches(pm, ghost)}
             ELSE {GhostStep(pm, ghost, nb[last][1], nb[last][2])}

\* PacMan::findPacman: the game with the ghost's sniff set, and the result
findPacman(pm, ghost) ==
    IF pm.sniff[ghost] > 0
    THEN [game |-> pm, found |-> TRUE]
    ELSE IF manhattanDistance(pm.pacmanX, pm.pacmanY,
                              pm.ghostX[ghost], pm.ghostY[ghost]) <= 5
         THEN [game |-> [pm EXCEPT !.sniff[ghost] = 5], found |-> TRUE]
         ELSE [game |-> pm, found |-> FALSE]

\* PacMan::moveGhostAndUpdateReward (the statement *sniff-- moves the local
\* pointer and leaves the ghost's sniff as it is)
moveGhostAndUpdateReward(pm, ghost) ==
    LET f == findPacman(pm, ghost)
    IN  IF f.found /\ f.game.sniff[ghost] > -2
        THEN ghostPursuitMove(f.game, ghost)
        ELSE ghostRandomMove(f.game, ghost)

\* PacMan::binaryToDecimal: binaryObservation as the set of its true indices
binaryToDecimal(bits) ==
    LET RECURSIVE Sum(_)
        Sum(x) == IF x > 15 THEN 0
                  ELSE (IF x \in bits THEN 2 ^ (15 - x) ELSE 0) + Sum(x + 1)
    IN  Sum(0)

\* PacMan::updateObservation
updateObservation(pm) ==
    LET X == pm.pacmanX
        Y == pm.pacmanY
        at(x, y) == MapAt(pm.map, x, y)
        upSeen    == {y \in 1..(Y - 1) : \A yy \in y..(Y - 1) : at(X, yy) # "*"}
        rightSeen == {x \in (X + 1)..16 : \A xx \in (X + 1)..x : at(xx, Y) # "*"}
        downSeen  == {y \in (Y + 1)..18 : \A yy \in (Y + 1)..y : at(X, yy) # "*"}
        leftSeen  == {x \in 1..(X - 1) : \A xx \in x..(X - 1) : at(xx, Y) # "*"}
        pelletWithin(d) ==
            \E q \in MapCells : manhattanDistance(X, Y, q[1], q[2]) <= d
                                  /\ at(q[1], q[2]) = "."
        bits ==
            (IF Y - 1 < 0 \/ at(X, Y - 1) = "*" THEN {0} ELSE {})
            \cup (IF X + 1 > 16 \/ at(X + 1, Y) = "*" THEN {1} ELSE {})
            \cup (IF Y + 1 > 18 \/ at(X, Y + 1) = "*" THEN {2} ELSE {})
            \cup (IF X - 1 < 0 \/ at(X, Y) = "*" THEN {3} ELSE {})
            \cup (IF \E y \in upSeen : at(X, y) \in GhostNames THEN {4} ELSE {})
            \cup (IF \E x \in rightSeen : at(x, Y) \in GhostNames THEN {5} ELSE {})
            \cup (IF \E y \in downSeen : at(X, y) \in GhostNames THEN {6} ELSE {})
            \cup (IF \E x \in leftSeen : at(x, Y) \in GhostNames THEN {7} ELSE {})
            \cup (IF pelletWithin(2) THEN {8} ELSE {})
            \cup (IF pelletWithin(3) THEN {9} ELSE {})
            \cup (IF pelletWithin(4) THEN {10} ELSE {})
            \cup (IF \E y \in upSeen : at(X, y) = "." THEN {11} ELSE {})
            \cup (IF \E x \in rightSeen : at(x, Y) = "." THEN {12} ELSE {})
            \cup (IF \E y \in downSeen : at(X, y) = "." THEN {13} ELSE {})
            \cup (IF \E x \in leftSeen : at(x, Y) = "." THEN {14} ELSE {})
            \cup (IF pm.poweredUp THEN {15} ELSE {})
    IN  [pm EXCEPT !.m_observation = binaryToDecimal(bits)]

\* PacMan::performAction, lines 41-57: the square PacMan tries to move to.
\* For an action other than 0..3 newX and newY are read uninitialized: any
\* two ints, which movePacmanAndUpdateReward tells apart only as below the
\* map, on it, or beyond it.
NewPosition(x, y, a) ==
    CASE a = 0 -> {<<x, y - 1>>}
      [] a = 1 -> {<<x + 1, y>>}
      [] a = 2 -> {<<x, y + 1>>}
      [] a = 3 -> {<<x - 1, y>>}
      [] OTHER -> ((-1)..17) \X ((-1)..19)

\* the games in S after the ghost has moved
MoveGhost(S, ghost) == UNION {moveGhostAndUpdateReward(p, ghost) : p \in S}

\* PacMan::performAction
PacManPerformAction(pm, a) ==
    LET p0 == [pm EXCEPT !.timestep = @ + 1, !.m_reward = 200]
        moved == {movePacmanAndUpdateReward(p0, q[1], q[2]) :
                     q \in NewPosition(pm.pacmanX, pm.pacmanY, a)}
        haunted == MoveGhost(MoveGhost(MoveGhost(MoveGhost(moved, "A"), "B"), "C"), "D")
        seen == {[updateObservation(p) EXCEPT !.m_action = a] : p \in haunted}
    IN  UNION {IF p.reset
               THEN {resetEpisode(p, pellets) : pellets \in PelletDraws}
               ELSE {p} : p \in seen}

InitPacMan ==
    /\ AgentReset
    /\ SearchIdle
    /\ env \in PacManInit
    /\ m_horizon = Horizon
    /\ m_mc_simulations = McSimulations
    /\ m_learning_period = 0
    /\ cycle = 1
    /\ explore = FALSE
    /\ explored = FALSE
    /\ action = 0
    /\ block = NoBlock
    /\ pc = "pacman"
    /\ call = NoCall

\* a client performs an action that isValidAction accepts
PacManAct(a) ==
    /\ pc = "pacman"
    /\ env.timestep < MaxTimestep
    /\ PacManIsValidAction(a)
    /\ env' \in PacManPerformAction(env, a)
    /\ action' = a
    /\ call' = [op |-> "PacMan::performAction", action |-> a,
                pacmanX |-> env.pacmanX, pacmanY |-> env.pacmanY]
    /\ UNCHANGED <<m_ct, agentVars, cycle, explore, explored, pc, options,
                   searchVars, block>>

NextPacMan == \E a \in (-1)..(PacManMaxAction + 1) : PacManAct(a)

SpecPacMan == InitPacMan /\ [][NextPacMan]_vars

\* C26: in PacMan, after the construction and after every performAction,
\* the reward is at least 0 and at most maxReward(), and fits in
\* rewardBits() bits.
C26_PacManRewardInRange ==
    pc = "pacman" =>
        /\ 0 <= env.m_reward
        /\ env.m_reward <= PacManMaxReward
        /\ Fits(env.m_reward, PacManRewardBits)

\* C27: PacMan's maximum action is 3: isValidAction accepts exactly 0..3,
\* and performAction moves PacMan for every action it is given towards one
\* defined square: the one up, right, down or left of PacMan.
C27_PacManActionsAreMoves ==
    pc = "pacman" =>
        /\ PacManMaxAction = 3
        /\ \A a \in (-1)..(PacManMaxAction + 1) : PacManIsValidAction(a) <=> a \in 0..3
        /\ call.op = "PacMan::performAction" =>
              \E k \in 1..4 :
                 NewPosition(call.pacmanX, call.pacmanY, call.action)
                    = {Neighbours(call.pacmanX, call.pacmanY)[k]}

(***************************************************************************)
(* The environment: ExtendedTiger, a record [m_tiger, m_gold, m_sitting,   *)
(* m_listen_accuracy, m_observation, m_reward, m_action].  Every call of   *)
(* rand01() is rand01(raw) for some raw in 0..RAND_MAX.                    *)
(***************************************************************************)
ExtendedTiger_aListen == 0
ExtendedTiger_aLeft == 1
ExtendedTiger_aRight == 2
ExtendedTiger_aStand == 3

ExtendedTiger_oNull == 0
ExtendedTiger_oLeft == 1
ExtendedTiger_oRight == 2

ExtendedTiger_rInvalid == 0
ExtendedTiger_rTiger == 0
ExtendedTiger_rStand == 99
ExtendedTiger_rListen == 100
ExtendedTiger_rGold == 130

\* ExtendedTiger::maxAction
ExtendedTigerMaxAction == 3

\* ExtendedTiger::cDefaultListenAccuracy
cDefaultListenAccuracy == RNorm(85, 100)

\* the values of the option tiger-listen-accuracy tried
ListenAccuracies == {RZero, cDefaultListenAccuracy, ROne}

\* Environment::isValidAction, for ExtendedTiger
ExtendedTigerIsValidAction(a) == 0 <= a /\ a <= ExtendedTigerMaxAction

\* ExtendedTiger::reset
ExtendedTigerReset(et) ==
    {[et EXCEPT !.m_tiger = tiger,
                !.m_gold = IF tiger = ExtendedTiger_oLeft
                           THEN ExtendedTiger_oRight ELSE ExtendedTiger_oLeft,
                !.m_sitting = TRUE] :
        tiger \in {IF RLess(rand01(raw), <<1, 2>>)
                   THEN ExtendedTiger_oLeft ELSE ExtendedTiger_oRight :
                      raw \in 0..RAND_MAX}}

\* ExtendedTiger::ExtendedTiger
ExtendedTigerInit ==
    UNION {ExtendedTigerReset([m_tiger |-> 0, m_gold |-> 0, m_sitting |-> FALSE,
                               m_listen_accuracy |-> accuracy,
                               m_observation |-> ExtendedTiger_oNull,
                               m_reward |-> 0, m_action |-> 0]) :
              accuracy \in ListenAccuracies}

\* a performAction that opens a door for a seated agent too
ExtendedTigerPerformAction_OpensSeated(et, a) ==
    LET e0 == [et EXCEPT !.m_action = a,
                         !.m_observation = ExtendedTiger_oNull,
                         !.m_reward = ExtendedTiger_rInvalid]
    IN  IF a = ExtendedTiger_aLeft \/ a = ExtendedTiger_aRight
        THEN ExtendedTigerReset([e0 EXCEPT !.m_reward = ExtendedTiger_rGold])
        ELSE {e0}

\* ExtendedTiger::performAction
ExtendedTigerPerformAction(et, a) ==
    LET e0 == [et EXCEPT !.m_action = a,
                         !.m_observation = ExtendedTiger_oNull,
                         !.m_reward = ExtendedTiger_rInvalid]
    IN  CASE a = ExtendedTiger_aListen /\ et.m_sitting ->
               {[e0 EXCEPT !.m_observation = o, !.m_reward = ExtendedTiger_rListen] :
                   o \in {IF RLess(rand01(raw), et.m_listen_accuracy)
                          THEN et.m_tiger ELSE et.m_gold : raw \in 0..RAND_MAX}}
          [] a = ExtendedTiger_aLeft /\ ~et.m_sitting ->
               ExtendedTigerReset(
                   [e0 EXCEPT !.m_reward = IF et.m_tiger = ExtendedTiger_oLeft
                                           THEN ExtendedTiger_rTiger
                                           ELSE ExtendedTiger_rGold])
          [] a = ExtendedTiger_aRight /\ ~et.m_sitting ->
               ExtendedTigerReset(
                   [e0 EXCEPT !.m_reward = IF et.m_tiger = ExtendedTiger_oRight
                                           THEN ExtendedTiger_rTiger
                                           ELSE ExtendedTiger_rGold])
          [] a = ExtendedTiger_aStand /\ et.m_sitting ->
               {[e0 EXCEPT !.m_reward = ExtendedTiger_rStand, !.m_sitting = FALSE]}
          [] OTHER -> {e0}

InitExtendedTiger ==
    /\ AgentReset
    /\ SearchIdle
    /\ env \in ExtendedTigerInit
    /\ m_horizon = Horizon
    /\ m_mc_simulations = McSimulations
    /\ m_learning_period = 0
    /\ cycle = 1
    /\ explore = FALSE
    /\ explored = FALSE
    /\ action = 0
    /\ block = NoBlock
    /\ pc = "extended-tiger"
    /\ call = NoCall

\* a client performs a valid action
ExtendedTigerAct(a) ==
    /\ pc = "extended-tiger"
    /\ ExtendedTigerIsValidAction(a)
    /\ env' \in ExtendedTigerPerformAction(env, a)
    /\ action' = a
    /\ call' = [op |-> "ExtendedTiger::performAction", pre |-> env, action |-> a]
    /\ UNCHANGED <<m_ct, agentVars, cycle, explore, explored, pc, options,
                   searchVars, block>>

NextExtendedTiger == \E a \in 0..ExtendedTigerMaxAction : ExtendedTigerAct(a)

SpecExtendedTiger == InitExtendedTiger /\ [][NextExtendedTiger]_vars

\* the action is invalid in the posture: a door while seated, or listening
\* or standing up while standing
InvalidInPosture(et, a) ==
    \/ a \in {ExtendedTiger_aLeft, ExtendedTiger_aRight} /\ et.m_sitting
    \/ a \in {ExtendedTiger_aListen, ExtendedTiger_aStand} /\ ~et.m_sitting

\* the call opened a door: the agent was paid for what was behind it
DoorOpened(pre, a, post) ==
    \/ /\ a = ExtendedTiger_aLeft
       /\ post.m_reward = IF pre.m_tiger = ExtendedTiger_oLeft
                          THEN ExtendedTiger_rTiger ELSE ExtendedTiger_rGold
    \/ /\ a = ExtendedTiger_aRight
       /\ post.m_reward = IF pre.m_tiger = ExtendedTiger_oRight
                          THEN ExtendedTiger_rTiger ELSE ExtendedTiger_rGold

\* C28: in ExtendedTiger an action that is invalid in the current posture
\* gives observation oNull and reward rInvalid and leaves the posture and
\* the places of tiger and gold as they were; a door action of a standing
\* agent opens the door and re-seats the agent, and the agent is re-seated
\* by nothing else.
C28_InvalidActionsChangeNothing ==
    call.op = "ExtendedTiger::performAction" =>
        /\ InvalidInPosture(call.pre, call.action) =>
              /\ env.m_observation = ExtendedTiger_oNull
              /\ env.m_reward = ExtendedTiger_rInvalid
              /\ env.m_sitting = call.pre.m_sitting
              /\ env.m_tiger = call.pre.m_tiger
              /\ env.m_gold = call.pre.m_gold
        /\ (call.action \in {ExtendedTiger_aLeft, ExtendedTiger_aRight}
               /\ ~call.pre.m_sitting) =>
              /\ DoorOpened(call.pre, call.action, env)
              /\ env.m_sitting
              /\ env.m_observation = ExtendedTiger_oNull
        /\ (~call.pre.m_sitting /\ env.m_sitting) =>
              call.action \in {ExtendedTiger_aLeft, ExtendedTiger_aRight}
        /\ {env.m_tiger, env.m_gold} = {ExtendedTiger_oLeft, ExtendedTiger_oRight}

\* C28 witness: a seated agent has tried the door that hides the gold, and
\* nothing has changed
C28_Witness ==
    /\ call.op = "ExtendedTiger::performAction"
    /\ call.pre.m_sitting
    /\ call.action \in {ExtendedTiger_aLeft, ExtendedTiger_aRight}
    /\ call.pre.m_gold = call.action
    /\ env.m_reward = ExtendedTiger_rInvalid
    /\ env.m_sitting

\* C30: at a chance node the decision child is keyed by the whole percept:
\* the child that sample descends to after the percept (o, r) is the child
\* of (o, r), and no percept the agent could have generated in its place
\* that differs from it in observation or in reward has the same child.
C30_ChanceChildKeyedByPercept ==
    (call.op = "genPerceptAndUpdate" /\ pc = "sample") =>
        /\ Top.node[Len(Top.node)] = ChanceChildIndex(call.o, call.r)
        /\ \A g \in genPerceptAndUpdate(call.pre) :
              <<g.o, g.r>> # <<call.o, call.r>>
                 => ChanceChildIndex(g.o, g.r) # Top.node[Len(Top.node)]

(***************************************************************************)
(* The shape of the context tree between operations.                       *)
(***************************************************************************)
\* C31: between the operations of a ContextTree every node other than the
\* root has been visited at least once: a node whose visits return to zero
\* on a revert is destroyed by that revert.
C31_NoZeroVisitNodes ==
    pc = "tree" => \A path \in DOMAIN m_ct.m_root :
                      path # <<>> => visits(m_ct.m_root[path]) >= 1

ChildVisits(t, path) ==
    (IF HasChild(t, path, 0) THEN visits(t[child(t, path, 0)]) ELSE 0)
    + (IF HasChild(t, path, 1) THEN visits(t[child(t, path, 1)]) ELSE 0)

\* C33: between the operations of a ContextTree the visits of every node
\* above the maximum depth D are the sum of the visits of the children it
\* has.
C33_VisitsAreSumOfChildren ==
    pc = "tree" =>
        \A path \in DOMAIN m_ct.m_root :
            Len(path) < Depth =>
                visits(m_ct.m_root[path]) = ChildVisits(m_ct.m_root, path)

\* C33 witness: after the reverts of a block the root and a chain of
\* children below it are visited, and the root has another child that was
\* left with no visits
C33_Witness ==
    /\ pc = "tree"
    /\ BlockDone
    /\ visits(m_ct.m_root[<<>>]) >= 1
    /\ \E s \in {0, 1} :
          /\ HasChild(m_ct.m_root, <<>>, s) /\ visits(m_ct.m_root[<<s>>]) >= 1
          /\ HasChild(m_ct.m_root, <<>>, 1 - s) /\ visits(m_ct.m_root[<<1 - s>>]) = 0

(* The action policy of the search tree. *)
\* sample() is about to call selectAction on the node on top of the stack
Selecting ==
    /\ pc = "sample"
    /\ stack # <<>>
    /\ Top.horizon # 0
    /\ m_search_tree[Top.node].m_type = "decision"
    /\ m_search_tree[Top.node].m_visits # 0

\* the actions of the node that have the priority of an unexplored child
UnexploredActions(st, path) == {a \in 0..maxAction : Unexplored(st, path, a)}

\* C34: selectAction returns an action in [0, max_action], and an unexplored
\* action whenever the node has one.
C34_SelectsUnexploredFirst ==
    Selecting =>
        /\ selectAction(m_search_tree, Top.node) # {}
        /\ selectAction(m_search_tree, Top.node) \subseteq 0..maxAction
        /\ UnexploredActions(m_search_tree, Top.node) # {}
              => selectAction(m_search_tree, Top.node)
                    \subseteq UnexploredActions(m_search_tree, Top.node)

\* C34 witness: selectAction has just returned action 1 at a node whose
\* action 0 was explored
C34_Witness ==
    /\ call.op = "modelUpdateAction"
    /\ call.action = 1
    /\ Len(stack) >= 2
    /\ LET node == stack[Len(stack) - 1].node
       IN  /\ m_search_tree[node].m_visits >= 2
           /\ HasSearchChild(m_search_tree, node, 0)
           /\ m_search_tree[Append(node, 0)].m_visits >= 1
           /\ m_search_tree[Append(node, 1)].m_visits = 0

\* the actions of maximal priority when two or more are tied: the unexplored
\* actions, or all actions when their children have the same visits and mean
TiedActions(st, path) ==
    IF UnexploredActions(st, path) # {}
    THEN UnexploredActions(st, path)
    ELSE IF \A a, b \in 0..maxAction :
                /\ st[Append(path, a)].m_visits = st[Append(path, b)].m_visits
                /\ st[Append(path, a)].m_mean = st[Append(path, b)].m_mean
         THEN 0..maxAction
         ELSE {}

\* C35: when two or more actions are tied at the maximal priority, each of
\* them can be the action selectAction returns.
C35_TiesBrokenRandomly ==
    (Selecting /\ Cardinality(TiedActions(m_search_tree, Top.node)) >= 2) =>
        TiedActions(m_search_tree, Top.node)
            \subseteq selectAction(m_search_tree, Top.node)

(* The statistics of the search nodes. *)
RECURSIVE ChanceRewards(_)
\* the rewards that the chance nodes of the calls in progress, from call k to
\* the innermost, have sampled
ChanceRewards(k) ==
    IF k > Len(stack) THEN 0
    ELSE (IF m_search_tree[stack[k].node].m_type = "chance" THEN stack[k].r ELSE 0)
         + ChanceRewards(k + 1)

\* the reward that call k of the calls in progress returns, given that the
\* innermost one ended with reward: what its chance nodes sampled and what
\* the playout (or the horizon) gave
Returned(k) == reward + ChanceRewards(k)

\* the calls in progress on a node, all of them made with horizon > 0
CallsOn(node) == {k \in 1..Len(stack) : stack[k].node = node /\ stack[k].horizon > 0}

RECURSIVE SumReturned(_)
SumReturned(calls) ==
    IF calls = {} THEN 0
    ELSE LET k == CHOOSE k \in calls : TRUE
         IN  Returned(k) + SumReturned(calls \ {k})

\* N * mean of a search node
TotalReturn(n) == RMul(RInt(n.m_visits), n.m_mean)

\* C36: the visits N of a search node count the sample calls made on it with
\* horizon > 0 and N * mean is the sum of the rewards those calls returned.
\* A node starts with N = 0 and mean = 0; when the calls of a simulation
\* return, every node gains one visit and the returned reward for each call on
\* it with horizon > 0; no other step changes a node.
C36_MeanOfReturns ==
    [][\A node \in DOMAIN m_search_tree' :
          IF pc = "act" \/ node \notin DOMAIN m_search_tree
          THEN /\ m_search_tree'[node].m_visits = 0
               /\ m_search_tree'[node].m_mean = RZero
          ELSE IF pc = "return"
          THEN /\ \A k \in 1..Len(stack) : stack[k].horizon > 0
               /\ m_search_tree'[node].m_visits
                     = m_search_tree[node].m_visits + Cardinality(CallsOn(node))
               /\ TotalReturn(m_search_tree'[node])
                     = RAdd(TotalReturn(m_search_tree[node]),
                            RInt(SumReturned(CallsOn(node))))
          ELSE m_search_tree'[node] = m_search_tree[node]]_vars

\* C36 witness: the root has been sampled twice or more with returns whose
\* mean is not a whole number, and a call with horizon 0 has left a decision
\* node below it without a visit
C36_Witness ==
    /\ pc = "revert"
    /\ m_search_tree[<<>>].m_visits >= 2
    /\ m_search_tree[<<>>].m_mean[2] # 1
    /\ \E node \in DOMAIN m_search_tree :
          /\ Len(node) = 2
          /\ m_search_tree[node].m_visits = 0

(* The length of a simulation. *)
\* C37: a simulation root.sample(agent, H) with H >= 1 simulates exactly H
\* cycles: when it has returned, and before the revert, the history is H
\* action encodings and H percept encodings longer than at the snapshot and
\* the age is H larger.
C37_SimulationIsHCycles ==
    (pc = "revert" /\ m_horizon >= 1) =>
        /\ Len(m_ct.m_history)
              = Len(entry.m_ct.m_history) + m_horizon * (actionBits + perceptBits)
        /\ m_time_cycle = entry.m_time_cycle + m_horizon
        /\ Len(entry.m_ct.m_history) = undo.m_history_size
        /\ entry.m_time_cycle = undo.m_age

\* C37 witness: a simulation of two cycles has returned that went through a
\* decision node, a chance node and a second decision node before its playout
C37_Witness ==
    /\ pc = "revert"
    /\ m_horizon = 2
    /\ sim >= 1
    /\ \E node \in DOMAIN m_search_tree :
          /\ Len(node) = 2
          /\ m_search_tree[node].m_visits >= 1
    /\ Len(m_ct.m_history) = Len(entry.m_ct.m_history) + 2 * (actionBits + perceptBits)

(* The pursuit of the PacMan ghosts. *)
\* C38: once a ghost has detected PacMan its sniff counter goes down on every
\* step: after a performAction that left a ghost with a positive sniff, every
\* outcome of the next performAction leaves that ghost with a smaller sniff
\* (one less, or zero where the ghost or the episode was reset).
C38_SniffCountsDown ==
    (pc = "pacman" /\ call.op = "PacMan::performAction") =>
        \A ghost \in GhostNames :
            env.sniff[ghost] > 0 =>
                \A a \in 0..3 :
                    \A p \in PacManPerformAction(env, a) :
                        p.sniff[ghost] < env.sniff[ghost]

(***************************************************************************)
(* The percepts the agent generates from its model: a new agent, whose     *)
(* tree has seen nothing, is asked for percepts in environments of several *)
(* sizes.                                                                  *)
(***************************************************************************)
InitPercept ==
    /\ AgentReset
    /\ SearchIdle
    /\ env = NoEnv
    /\ m_horizon = Horizon
    /\ m_mc_simulations = McSimulations
    /\ m_learning_period = 0
    /\ cycle = 1
    /\ explore = FALSE
    /\ explored = FALSE
    /\ action = 0
    /\ pc = "percept"
    /\ block = NoBlock
    /\ call = NoCall

\* Agent::genPercept in an environment with observations 0..maxO and
\* rewards 0..maxR
GenPercept(maxO, maxR) ==
    /\ pc = "percept"
    /\ \E p \in genPerceptIn(m_ct, bitsRequired(maxO), bitsRequired(maxR)) :
          call' = [op |-> "genPercept", maxO |-> maxO, maxR |-> maxR,
                   oBits |-> bitsRequired(maxO), rBits |-> bitsRequired(maxR),
                   result |-> p]
    /\ UNCHANGED <<m_ct, agentVars, loopVars, searchVars, block>>

NextPercept == \E maxO \in 1..MaxPercept, maxR \in 1..MaxPercept : GenPercept(maxO, maxR)

SpecPercept == InitPercept /\ [][NextPercept]_vars

\* C39: every percept the agent generates from its model is a valid percept
\* of the environment: observation <= max_observation and reward <=
\* max_reward.
C39_GeneratedPerceptsValid ==
    call.op = "genPercept" =>
        /\ call.result.observation <= call.maxO
        /\ call.result.reward <= call.maxR

(* The chain rule of sequence prediction. *)
RECURSIVE ChainRule(_, _)
\* the product over i of predict(y_i) evaluated after updating with
\* y_1 .. y_(i-1)
ChainRule(ct, symbols) ==
    IF symbols = <<>> THEN ROne
    ELSE RMul(predict(ct, Head(symbols)).value,
              ChainRule(update(ct, Head(symbols)), Tail(symbols)))

\* C40: for every history length, predict(y_1 .. y_k) is the product over i
\* of predict(y_i) evaluated after updating with y_1 .. y_(i-1).
C40_PredictListChainRule ==
    (pc = "tree" /\ call.op = "predictList") =>
        call.value = ChainRule(call.pre, call.symbols)

=============================================================================
